---- MODULE Spec2Model ----
(***************************************************************************)
(* Model of the CSV ingestion and analytics core of Finance-Frontend:      *)
(*   - CSVParser (client/src/lib/queryClient.ts), a pure parser,           *)
(*   - the HTTP handlers of server/routes.ts over MemStorage               *)
(*     (server/storage.ts).                                                *)
(* Strings are TLC strings; JavaScript's string methods are operators over *)
(* them.  Amounts are integers counting hundredths (4.85 is 485); the      *)
(* not-a-number value of parseFloat is the value NaN below.  Dates are     *)
(* calendar dates [y, m, d]; an Invalid Date is InvalidDate.               *)
(***************************************************************************)
EXTENDS Integers, Sequences, FiniteSets, TLC

VARIABLES
    csvContent,     \* the text handed to CSVParser.parseCSV / uploaded as csvFile
    options,        \* CSVParseOptions: [hasHeader, delimiter]
    result,         \* the CSVParseResult of the last parseCSV call, or NoResult
    headerCells,    \* the headers argument of a CSVParser.findColumnIndex call
    aliasNames,     \* its possibleNames argument
    columnIndex,    \* the index the call returned, or NotCalled
    getTimeRangeData, \* Reports: the transactions of the selected time range
    monthlyTrends,  \* Reports: the monthlyTrends computed from them, or NotComputed
    timeRange,      \* Reports: the selected time range
    categoryBreakdown, \* Reports: the categoryBreakdown computed, or NoBreakdown
    lineFields,     \* the cells parseCSVLine made of each non-blank line, or NotTokenized
    transactions,   \* MemStorage.transactions: id -> Transaction
    categories,     \* MemStorage.categories: id -> Category
    budgets,        \* MemStorage.budgets: id -> Budget
    savingsGoals,   \* MemStorage.savingsGoals: id -> SavingsGoal
    nextId,         \* the number of ids randomUUID() has handed out
    now,            \* the calendar day new Date() reads on the server
    response,       \* the last HTTP response of the server
    uploads         \* the POST /api/upload/csv requests in flight: their position and locals

\* the state of the client: the parser's and the Reports page's calls
clientVars == <<csvContent, options, result, headerCells, aliasNames, columnIndex,
                getTimeRangeData, monthlyTrends, timeRange, categoryBreakdown, lineFields>>

\* groups of variables the actions of the client leave alone
columnVars == <<headerCells, aliasNames, columnIndex>>

reportVars == <<getTimeRangeData, monthlyTrends, timeRange, categoryBreakdown>>

serverVars == <<transactions, categories, budgets, savingsGoals, nextId, now, response, uploads>>

vars == <<clientVars, transactions, categories, budgets, savingsGoals, nextId, now, response,
          uploads>>

-----------------------------------------------------------------------------
(* JavaScript string primitives *)

CharAt(s, i) == SubSeq(s, i, i)

Slice(s, i, j) == IF j < i THEN "" ELSE SubSeq(s, i, j)

\* String.prototype.includes
includes(s, sub) ==
    \/ sub = ""
    \/ \E i \in 0..(Len(s) - Len(sub)) : SubSeq(s, i + 1, i + Len(sub)) = sub

UpperLetters == "ABCDEFGHIJKLMNOPQRSTUVWXYZ"
LowerLetters == "abcdefghijklmnopqrstuvwxyz"
Digits == "0123456789"

\* position of the one-character string c in alphabet, 0 when absent
IndexOfChar(c, alphabet) ==
    IF \E i \in 1..Len(alphabet) : CharAt(alphabet, i) = c
    THEN CHOOSE i \in 1..Len(alphabet) : CharAt(alphabet, i) = c
    ELSE 0

\* the characters of a string, as a set of one-character strings
CharsOf(alphabet) == {CharAt(alphabet, i) : i \in 1..Len(alphabet)}

UpperChars == CharsOf(UpperLetters)

DigitChars == CharsOf(Digits)

LowerChar(c) ==
    IF c \in UpperChars THEN CharAt(LowerLetters, IndexOfChar(c, UpperLetters)) ELSE c

\* String.prototype.toLowerCase, character by character
RECURSIVE toLowerCase(_)
toLowerCase(s) ==
    IF Len(s) = 0 THEN ""
    ELSE IF Len(s) = 1 THEN LowerChar(s)
    ELSE toLowerCase(Slice(s, 1, Len(s) \div 2)) \o toLowerCase(Slice(s, Len(s) \div 2 + 1, Len(s)))

IsWhitespace(c) == c \in {" ", "\t", "\r", "\n"}

RECURSIVE trimStart(_)
trimStart(s) ==
    IF s # "" /\ IsWhitespace(CharAt(s, 1)) THEN trimStart(Slice(s, 2, Len(s))) ELSE s

RECURSIVE trimEnd(_)
trimEnd(s) ==
    IF s # "" /\ IsWhitespace(CharAt(s, Len(s))) THEN trimEnd(Slice(s, 1, Len(s) - 1)) ELSE s

\* String.prototype.trim
trim(s) == trimEnd(trimStart(s))

\* String.prototype.split with a one-character separator: the pieces between
\* the occurrences of sep, in order
split(s, sep) ==
    LET P == {i \in 1..Len(s) : CharAt(s, i) = sep}
        n == Cardinality(P)
        pos(k) == IF k = 0 THEN 0
                  ELSE IF k = n + 1 THEN Len(s) + 1
                  ELSE CHOOSE p \in P : Cardinality({q \in P : q <= p}) = k
    IN  [k \in 1..(n + 1) |-> Slice(s, pos(k - 1) + 1, pos(k) - 1)]

\* s.replace(/[...]/g, '') : drop every character of the class, a set of
\* one-character strings
RECURSIVE removeChars(_, _)
removeChars(s, class) ==
    IF Len(s) = 0 THEN ""
    ELSE IF Len(s) = 1 THEN (IF s \in class THEN "" ELSE s)
    ELSE removeChars(Slice(s, 1, Len(s) \div 2), class)
         \o removeChars(Slice(s, Len(s) \div 2 + 1, Len(s)), class)

\* s.replace(/[^...]/g, '') : keep only the characters of the class
RECURSIVE keepChars(_, _)
keepChars(s, class) ==
    IF Len(s) = 0 THEN ""
    ELSE IF Len(s) = 1 THEN (IF s \in class THEN s ELSE "")
    ELSE keepChars(Slice(s, 1, Len(s) \div 2), class)
         \o keepChars(Slice(s, Len(s) \div 2 + 1, Len(s)), class)

IsDigits(s) == s # "" /\ \A i \in 1..Len(s) : CharAt(s, i) \in DigitChars

\* parseInt of a string of decimal digits
RECURSIVE parseInt(_)
parseInt(s) ==
    IF s = "" THEN 0
    ELSE 10 * parseInt(Slice(s, 1, Len(s) - 1)) + (IndexOfChar(CharAt(s, Len(s)), Digits) - 1)

-----------------------------------------------------------------------------
(* Numbers: parseFloat, in hundredths *)

NaN == -1000000000

isNaN(v) == v = NaN

\* length of the longest prefix of s made of decimal digits
RECURSIVE digitPrefixLen(_)
digitPrefixLen(s) ==
    IF s # "" /\ CharAt(s, 1) \in DigitChars
    THEN 1 + digitPrefixLen(Slice(s, 2, Len(s)))
    ELSE 0

\* the first two fractional digits, as hundredths
Hundredths(frac) ==
    IF Len(frac) = 0 THEN 0
    ELSE IF Len(frac) = 1 THEN 10 * parseInt(frac)
    ELSE parseInt(Slice(frac, 1, 2))

\* the value of an unsigned decimal literal: nInt integer digits at the head
\* of body, then rest, which holds nFrac fraction digits after a "."
DecimalValue(body, nInt, rest, nFrac) ==
    IF nInt = 0 /\ nFrac = 0 THEN NaN
    ELSE 100 * parseInt(Slice(body, 1, nInt)) + Hundredths(Slice(rest, 2, 1 + nFrac))

FractionLen(rest) ==
    IF rest # "" /\ CharAt(rest, 1) = "." THEN digitPrefixLen(Slice(rest, 2, Len(rest))) ELSE 0

DecimalAfter(body, nInt, rest) == DecimalValue(body, nInt, rest, FractionLen(rest))

DecimalWith(body, nInt) == DecimalAfter(body, nInt, Slice(body, nInt + 1, Len(body)))

UnsignedDecimal(body) == DecimalWith(body, digitPrefixLen(body))

WithSign(neg, mag) == IF neg /\ ~isNaN(mag) THEN 0 - mag ELSE mag

SignedDecimal(s) ==
    WithSign(s # "" /\ CharAt(s, 1) = "-",
             UnsignedDecimal(IF s # "" /\ CharAt(s, 1) \in {"+", "-"}
                             THEN Slice(s, 2, Len(s)) ELSE s))

\* parseFloat: leading white space is skipped, then the longest prefix that is
\* a decimal literal ([+-] digits [. digits] or [+-] . digits) is converted;
\* NaN when there is none.  (Exponents and "Infinity" do not occur in the inputs.)
parseFloat(str) == SignedDecimal(trimStart(str))

\* Math.abs
Abs(v) == IF isNaN(v) THEN NaN ELSE IF v < 0 THEN 0 - v ELSE v

-----------------------------------------------------------------------------
(* Dates *)

InvalidDate == [valid |-> FALSE, y |-> 0, m |-> 0, d |-> 0]

IsLeap(y) == (y % 4 = 0 /\ y % 100 # 0) \/ y % 400 = 0

DaysInMonth(y, m) ==
    IF m = 2 THEN (IF IsLeap(y) THEN 29 ELSE 28)
    ELSE IF m \in {4, 6, 9, 11} THEN 30 ELSE 31

\* carry a day number outside 1..DaysInMonth into the neighbouring months
RECURSIVE NormalizeDay(_, _, _)
NormalizeDay(y, m, d) ==
    IF d > DaysInMonth(y, m)
    THEN (IF m = 12 THEN NormalizeDay(y + 1, 1, d - DaysInMonth(y, m))
                    ELSE NormalizeDay(y, m + 1, d - DaysInMonth(y, m)))
    ELSE IF d < 1
    THEN (IF m = 1 THEN NormalizeDay(y - 1, 12, d + 31)
                   ELSE NormalizeDay(y, m - 1, d + DaysInMonth(y, m - 1)))
    ELSE [valid |-> TRUE, y |-> y, m |-> m, d |-> d]

\* new Date(year, monthIndex, day): out-of-range components carry over, the
\* result is never an Invalid Date; a year 0..99 means 1900 + year
NewDateYMD(year, monthIndex, day) ==
    LET y0 == IF year \in 0..99 THEN 1900 + year ELSE year
        y  == y0 + (monthIndex \div 12)
        m  == (monthIndex % 12) + 1
    IN  NormalizeDay(y, m, day)

\* The fields of s between the separators
DateFields(s, sep) == split(s, sep)

\* p is digits, digits, digits
AreThreeNumbers(p) == Len(p) = 3 /\ \A k \in 1..3 : IsDigits(p[k])

IsThreeNumbers(s, sep) == AreThreeNumbers(DateFields(s, sep))

\* a date iff the month is 1..12 and the day 1..31; a day past the month's
\* end carries over
DateOfNumbers(y, m, d) ==
    IF m \in 1..12 /\ d \in 1..31 THEN NormalizeDay(y, m, d) ELSE InvalidDate

\* p the fields, n their numbers: year first when the first field has three
\* digits or more or is past 31, month first otherwise; month and day have at
\* most two digits
DateOfTriple(p, n) ==
    IF Len(p[1]) >= 3 \/ n[1] > 31
    THEN (IF Len(p[2]) <= 2 /\ Len(p[3]) <= 2
          THEN DateOfNumbers(n[1], n[2], n[3]) ELSE InvalidDate)
    ELSE (IF Len(p[2]) <= 2
          THEN DateOfNumbers(n[3], n[1], n[2]) ELSE InvalidDate)

DateOfFields(p) ==
    IF AreThreeNumbers(p) THEN DateOfTriple(p, [k \in 1..3 |-> parseInt(p[k])])
    ELSE InvalidDate

\* new Date(string), as V8 reads the numeric shapes that occur here:
\*   YYYY-MM-DD (ISO, two-digit month and day): a date iff the month is 1..12
\*     and the day 1..31 (a day past the month's end carries over);
\*   year-first and month-first triples separated by - or / (legacy parser):
\*     a date under the same test;
\*   anything else: Invalid Date.
NewDateFromString(s) == DateOfFields(DateFields(s, IF includes(s, "/") THEN "/" ELSE "-"))

\* Date.getTime(), in days: later dates have greater values, an Invalid Date
\* has NaN
getTime(date) == IF date.valid THEN (date.y * 12 + (date.m - 1)) * 31 + (date.d - 1) ELSE NaN

\* a >= b on two Dates: false when either is an Invalid Date
DateGE(a, b) == ~isNaN(getTime(a)) /\ ~isNaN(getTime(b)) /\ getTime(a) >= getTime(b)

-----------------------------------------------------------------------------
(* CSVParser *)

DEFAULT_CATEGORIES == <<
    [id |-> "cat-1", keywords |-> {"restaurant", "food", "dining", "starbucks", "coffee", "pizza", "burger", "meal"}],
    [id |-> "cat-2", keywords |-> {"gas", "fuel", "uber", "lyft", "transport", "taxi", "bus", "train", "parking"}],
    [id |-> "cat-3", keywords |-> {"movie", "entertainment", "netflix", "spotify", "game", "concert", "theater"}],
    [id |-> "cat-4", keywords |-> {"amazon", "shopping", "store", "mall", "purchase", "buy", "retail"}],
    [id |-> "cat-5", keywords |-> {"salary", "income", "deposit", "payroll", "payment", "refund", "cashback"}] >>

\* value.replace(/^"|"$/g, '')
stripQuotes(value) ==
    LET a == IF value # "" /\ CharAt(value, 1) = "\"" THEN Slice(value, 2, Len(value)) ELSE value
    IN  IF a # "" /\ CharAt(a, Len(a)) = "\"" THEN Slice(a, 1, Len(a) - 1) ELSE a

\* Mutation of parseCSVLineFrom: the delimiter ends the field in quoted mode too
RECURSIVE parseCSVLineSplitting(_, _, _, _, _)
parseCSVLineSplitting(line, delimiter, i, current, inQuotes) ==
    IF i > Len(line) THEN <<trim(current)>>
    ELSE LET char == CharAt(line, i)
         IN  IF char = "\""
             THEN parseCSVLineSplitting(line, delimiter, i + 1, current, ~inQuotes)
             ELSE IF char = delimiter
             THEN <<trim(current)>> \o parseCSVLineSplitting(line, delimiter, i + 1, "", inQuotes)
             ELSE parseCSVLineSplitting(line, delimiter, i + 1, current \o char, inQuotes)

RECURSIVE parseCSVLineFrom(_, _, _, _, _)
parseCSVLineFrom(line, delimiter, i, current, inQuotes) ==
    IF i > Len(line) THEN <<trim(current)>>
    ELSE LET char == CharAt(line, i)
         IN  IF char = "\""
             THEN parseCSVLineFrom(line, delimiter, i + 1, current, ~inQuotes)
             ELSE IF char = delimiter /\ ~inQuotes
             THEN <<trim(current)>> \o parseCSVLineFrom(line, delimiter, i + 1, "", inQuotes)
             ELSE parseCSVLineFrom(line, delimiter, i + 1, current \o char, inQuotes)

\* values.map(value => value.replace(/^"|"$/g, '')), held as a sequence
stripAll(values) == <<>> \o [k \in 1..Len(values) |-> stripQuotes(values[k])]

parseCSVLine(line, delimiter) == stripAll(parseCSVLineFrom(line, delimiter, 1, "", FALSE))

\* the test of findIndex: header h against the lower-cased alias n
HeaderMatches(h, n) == h = n \/ includes(h, n) \/ includes(n, h)

\* the indexes of the headers that match the lower-cased alias n
MatchingHeaders(normalizedHeaders, n) ==
    {k \in 1..Len(normalizedHeaders) : HeaderMatches(normalizedHeaders[k], n)}

\* the zero-based index of the first match, -1 when there is none
IndexOfFirst(matches) ==
    IF matches = {} THEN -1 ELSE (CHOOSE k \in matches : \A j \in matches : k <= j) - 1

\* normalizedHeaders.findIndex(...): zero-based, -1 when no header matches
findIndexOfName(normalizedHeaders, name) ==
    IndexOfFirst(MatchingHeaders(normalizedHeaders, toLowerCase(name)))

\* if (index !== -1) return index; otherwise the loop goes on
FoundOr(index, rest) == IF index # -1 THEN index ELSE rest

RECURSIVE findColumnIndexFrom(_, _, _)
findColumnIndexFrom(normalizedHeaders, possibleNames, n) ==
    IF n > Len(possibleNames) THEN -1
    ELSE FoundOr(findIndexOfName(normalizedHeaders, possibleNames[n]),
                 findColumnIndexFrom(normalizedHeaders, possibleNames, n + 1))

\* headers.map(h => h.toLowerCase().trim()), held as a sequence
normalizeHeaders(headers) == <<>> \o [k \in 1..Len(headers) |-> trim(toLowerCase(headers[k]))]

\* Mutation of findColumnIndex: the headers are scanned in order, each against
\* every alias
findColumnIndexByHeader(headers, possibleNames) ==
    IndexOfFirst({k \in 1..Len(headers) : \E n \in 1..Len(possibleNames) :
                     HeaderMatches(normalizeHeaders(headers)[k], toLowerCase(possibleNames[n]))})

findColumnIndex(headers, possibleNames) ==
    findColumnIndexFrom(normalizeHeaders(headers), possibleNames, 1)

\* /^(\d{4})-(\d{1,2})-(\d{1,2})$/ on the fields
FieldsAreYMD(p) ==
    AreThreeNumbers(p) /\ Len(p[1]) = 4 /\ Len(p[2]) \in 1..2 /\ Len(p[3]) \in 1..2

MatchesYMD(s) == FieldsAreYMD(DateFields(s, "-"))

\* /^(\d{1,2})<sep>(\d{1,2})<sep>(\d{4})$/ on the fields
FieldsAreMDY(p) ==
    AreThreeNumbers(p) /\ Len(p[1]) \in 1..2 /\ Len(p[2]) \in 1..2 /\ Len(p[3]) = 4

MatchesMDY(s, sep) == FieldsAreMDY(DateFields(s, sep))

\* new Date(parseInt(match[1]), parseInt(match[2]) - 1, parseInt(match[3]))
DateOfYMD(p) == NewDateYMD(parseInt(p[1]), parseInt(p[2]) - 1, parseInt(p[3]))

\* new Date(parseInt(match[3]), parseInt(match[1]) - 1, parseInt(match[2]))
DateOfMDY(p) == NewDateYMD(parseInt(p[3]), parseInt(p[1]) - 1, parseInt(p[2]))

\* the loop over formats: the first pattern that matches decides
parseDateFormats(cleanedDate) ==
    IF MatchesYMD(cleanedDate) THEN DateOfYMD(DateFields(cleanedDate, "-"))
    ELSE IF MatchesMDY(cleanedDate, "/") THEN DateOfMDY(DateFields(cleanedDate, "/"))
    ELSE IF MatchesMDY(cleanedDate, "-") THEN DateOfMDY(DateFields(cleanedDate, "-"))
    ELSE InvalidDate

\* if (!isNaN(isoDate.getTime())) return isoDate; otherwise the formats
FirstValidDate(isoDate, formatDate) == IF isoDate.valid THEN isoDate ELSE formatDate

parseDateCleaned(cleanedDate) ==
    FirstValidDate(NewDateFromString(cleanedDate), parseDateFormats(cleanedDate))

\* the class [\d\/\-\.]
DateChars == DigitChars \cup {"/", "-", "."}

parseDate(dateStr) == parseDateCleaned(keepChars(dateStr, DateChars))

\* isNegative ? -Math.abs(amount) : amount
SignedAmount(isNegative, amount) ==
    IF isNegative THEN (IF isNaN(amount) THEN NaN ELSE 0 - Abs(amount)) ELSE amount

\* Mutation of parseAmount: parentheses do not make the amount negative
parseAmountMinusOnly(amountStr) ==
    SignedAmount(includes(amountStr, "-"),
                 parseFloat(removeChars(removeChars(amountStr, {"$", ",", "(", ")"}), {"-"})))

parseAmount(amountStr) ==
    SignedAmount(includes(amountStr, "(") \/ includes(amountStr, "-"),
                 parseFloat(removeChars(removeChars(amountStr, {"$", ",", "(", ")"}), {"-"})))

RECURSIVE autoCategorizeFrom(_, _)
autoCategorizeFrom(lowerDesc, k) ==
    IF k > Len(DEFAULT_CATEGORIES) THEN "cat-4"
    ELSE IF \E keyword \in DEFAULT_CATEGORIES[k].keywords : includes(lowerDesc, keyword)
    THEN DEFAULT_CATEGORIES[k].id
    ELSE autoCategorizeFrom(lowerDesc, k + 1)

autoCategorize(description, type) ==
    IF type = "income" THEN "cat-5"
    ELSE autoCategorizeFrom(toLowerCase(description), 1)

\* values[index], with JavaScript's undefined for an index outside the array
\* read as the empty string: every use below only tests it for truthiness
ValueAt(values, index) ==
    IF index >= 0 /\ index < Len(values) THEN values[index + 1] ELSE ""

Thrown(msg) == [ok |-> FALSE, error |-> "Error: " \o msg]

IsIncomeWord(typeStr) ==
    includes(typeStr, "income") \/ includes(typeStr, "deposit") \/ includes(typeStr, "credit")

TypeFromColumn(typeCell) ==
    IF IsIncomeWord(trim(toLowerCase(typeCell))) THEN "income" ELSE "expense"

IsIncomeDescription(lowerDesc) ==
    includes(lowerDesc, "salary") \/ includes(lowerDesc, "deposit") \/ includes(lowerDesc, "refund")

\* Mutation of TypeFromAmount: the description is searched as written
TypeFromAmountAsWritten(amount, description) ==
    IF amount > 0 /\ IsIncomeDescription(description)
    THEN "income" ELSE "expense"

TypeFromAmount(amount, description) ==
    IF amount > 0 /\ IsIncomeDescription(toLowerCase(description))
    THEN "income" ELSE "expense"

\* the type of the row: the type column when there is one and its cell is
\* not empty, the sign of the amount and the description otherwise
TypeOfRow(typeIndex, typeCell, amount, description) ==
    IF typeIndex # -1 /\ typeCell # "" THEN TypeFromColumn(typeCell)
    ELSE TypeFromAmount(amount, description)

ParsedTransaction(date, description, amount, type) ==
    [ok |-> TRUE,
     tx |-> [date |-> date, description |-> description, amount |-> Abs(amount),
             type |-> type, categoryId |-> autoCategorize(description, type)]]

\* the checks of parseTransaction, in order, on the trimmed cells and what
\* parseDate and parseAmount make of them
CheckedTransaction(dateStr, date, description, amountStr, amount, typeIndex, typeCell) ==
    IF dateStr = "" THEN Thrown("Date is required")
    ELSE IF ~date.valid THEN Thrown("Invalid date format: " \o dateStr)
    ELSE IF description = "" THEN Thrown("Description is required")
    ELSE IF amountStr = "" THEN Thrown("Amount is required")
    ELSE IF isNaN(amount) THEN Thrown("Invalid amount: " \o amountStr)
    ELSE ParsedTransaction(date, description, amount,
                           TypeOfRow(typeIndex, typeCell, amount, description))

TransactionOfCells(dateStr, description, amountStr, typeIndex, typeCell) ==
    CheckedTransaction(dateStr, parseDate(dateStr), description,
                       amountStr, parseAmount(amountStr), typeIndex, typeCell)

\* the transaction of a row, or the Error it throws
parseTransaction(values, dateIndex, descriptionIndex, amountIndex, typeIndex) ==
    TransactionOfCells(trim(ValueAt(values, dateIndex)),
                       trim(ValueAt(values, descriptionIndex)),
                       trim(ValueAt(values, amountIndex)),
                       typeIndex, ValueAt(values, typeIndex))

Max3(a, b, c) == IF a >= b /\ a >= c THEN a ELSE IF b >= c THEN b ELSE c

\* lines = csvContent.split('\n').filter(line => line.trim())
NonBlankLines(content) == SelectSeq(split(content, "\n"), LAMBDA line : trim(line) # "")

\* Mutation of ColumnErrors: one entry however many columns are missing
ColumnErrorsAsOne(dateIndex, descriptionIndex, amountIndex) ==
    IF dateIndex = -1 \/ descriptionIndex = -1 \/ amountIndex = -1
    THEN <<"Required column not found">>
    ELSE <<>>

\* the top-level errors pushed for the required columns not found
ColumnErrors(dateIndex, descriptionIndex, amountIndex) ==
    (IF dateIndex = -1
     THEN <<"Date column not found. Expected columns: date, transaction_date, trans_date">>
     ELSE <<>>)
    \o (IF descriptionIndex = -1
        THEN <<"Description column not found. Expected columns: description, memo, details, reference">>
        ELSE <<>>)
    \o (IF amountIndex = -1
        THEN <<"Amount column not found. Expected columns: amount, value, transaction_amount">>
        ELSE <<>>)

\* Mutation of RowOutcome: the number of cells is not looked at before
\* parseTransaction
RowOutcomeUnchecked(values, idx) ==
    parseTransaction(values, idx.date, idx.description, idx.amount, idx.type)

\* one pass of the row loop on the cells of a row: the transaction, or what
\* errors.push receives after the "Row n: " prefix
RowOutcome(values, idx) ==
    IF Len(values) < Max3(idx.date, idx.description, idx.amount) + 1
    THEN [ok |-> FALSE, error |-> "Insufficient columns"]
    ELSE parseTransaction(values, idx.date, idx.description, idx.amount, idx.type)

\* Mutation of Collect: a row that fails is dropped without an error entry
CollectSilently(acc, rowIndex, r) ==
    IF r.ok THEN [acc EXCEPT !.transactions = Append(@, r.tx)] ELSE acc

\* Mutation of Collect: the error entry carries the zero-based index of the line
CollectFromZero(acc, rowIndex, r) ==
    IF r.ok THEN [acc EXCEPT !.transactions = Append(@, r.tx)]
    ELSE [acc EXCEPT !.errors = Append(@, "Row " \o ToString(rowIndex - 1) \o ": " \o r.error)]

\* transactions.push(transaction) or errors.push(`Row ${rowIndex}: ...`)
Collect(acc, rowIndex, r) ==
    IF r.ok THEN [acc EXCEPT !.transactions = Append(@, r.tx)]
    ELSE [acc EXCEPT !.errors = Append(@, "Row " \o ToString(rowIndex) \o ": " \o r.error)]

\* the data-row loop of parseCSV, from line i (zero-based) on
RECURSIVE parseRows(_, _, _, _, _)
parseRows(lines, delimiter, idx, i, acc) ==
    IF i >= Len(lines) THEN acc
    ELSE parseRows(lines, delimiter, idx, i + 1,
                   Collect(acc, i + 1, RowOutcome(parseCSVLine(lines[i + 1], delimiter), idx)))

\* Mutation of TotalRows: the header line is counted as a data row
TotalRowsWithHeader(lines, dataStartIndex) == Len(lines)

\* totalRows: lines.length - dataStartIndex
TotalRows(lines, dataStartIndex) == Len(lines) - dataStartIndex

\* the column indexes found in the header row
\* Mutation of ColumnIndexes: only the names of the options are looked for
ColumnIndexesOfOptionNames(headerRow) ==
    [date        |-> findColumnIndex(headerRow, <<"date">>),
     description |-> findColumnIndex(headerRow, <<"description">>),
     amount      |-> findColumnIndex(headerRow, <<"amount">>),
     type        |-> findColumnIndex(headerRow, <<"type">>)]

ColumnIndexes(headerRow) ==
    [date        |-> findColumnIndex(headerRow,
                        <<"date", "date", "transaction_date", "trans_date">>),
     description |-> findColumnIndex(headerRow,
                        <<"description", "description", "memo", "details", "reference">>),
     amount      |-> findColumnIndex(headerRow,
                        <<"amount", "amount", "value", "transaction_amount">>),
     type        |-> findColumnIndex(headerRow,
                        <<"type", "type", "transaction_type", "debit_credit">>)]

\* the ParseResult returned after the row loop
ParseResultOf(lines, dataStartIndex, acc) ==
    [transactions |-> acc.transactions, errors |-> acc.errors,
     totalRows |-> TotalRows(lines, dataStartIndex),
     validRows |-> Len(acc.transactions)]

parseWithColumns(lines, delimiter, dataStartIndex, idx) ==
    ParseResultOf(lines, dataStartIndex,
        parseRows(lines, delimiter, idx, dataStartIndex,
                  [transactions |-> <<>>,
                   errors |-> ColumnErrors(idx.date, idx.description, idx.amount)]))

parseLines(lines, opts) ==
    IF Len(lines) = 0
    THEN [transactions |-> <<>>, errors |-> <<"CSV file is empty">>,
          totalRows |-> 0, validRows |-> 0]
    ELSE parseWithColumns(lines, opts.delimiter, IF opts.hasHeader THEN 1 ELSE 0,
             ColumnIndexes(IF opts.hasHeader
                           THEN parseCSVLine(lines[1], opts.delimiter)
                           ELSE <<"date", "description", "amount", "type">>))

parseCSV(content, opts) == parseLines(NonBlankLines(content), opts)

-----------------------------------------------------------------------------
(* MemStorage *)

DEFAULT_USER_ID == "default-user"

\* JavaScript's null in a categoryId
null == "<null>"

\* the categories Map after the constructor, in insertion order
initializeDefaultData == <<
    [id |-> "cat-1", name |-> "Food & Dining",  userId |-> DEFAULT_USER_ID],
    [id |-> "cat-2", name |-> "Transportation", userId |-> DEFAULT_USER_ID],
    [id |-> "cat-3", name |-> "Entertainment",  userId |-> DEFAULT_USER_ID],
    [id |-> "cat-4", name |-> "Shopping",       userId |-> DEFAULT_USER_ID],
    [id |-> "cat-5", name |-> "Income",         userId |-> DEFAULT_USER_ID] >>

\* randomUUID(): an id no transaction was given before
randomUUID(n) == n + 1

\* createTransaction: the stored Transaction of an InsertTransaction
NewTransaction(insertTransaction, id) ==
    [id          |-> id,
     description |-> insertTransaction.description,
     amount      |-> insertTransaction.amount,
     date        |-> insertTransaction.date,
     type        |-> insertTransaction.type,
     categoryId  |-> IF insertTransaction.categoryId \in {"", null} THEN null
                     ELSE insertTransaction.categoryId,
     userId      |-> insertTransaction.userId,
     createdAt   |-> now]

\* createBulkTransactions: createTransaction for each record in order; the
\* result is [store, created, nextId], created being the ids of the stored
\* transactions returned, in order
RECURSIVE createBulkTransactions(_, _, _, _)
createBulkTransactions(store, insertTransactions, n, created) ==
    IF insertTransactions = <<>> THEN [store |-> store, created |-> created, nextId |-> n]
    ELSE LET id == randomUUID(n)
             transaction == NewTransaction(Head(insertTransactions), id)
         IN  createBulkTransactions(store @@ (id :> transaction), Tail(insertTransactions),
                                    id, Append(created, id))

\* { ...transaction, ...updateData }
Merge(transaction, updateData) ==
    [f \in DOMAIN transaction \cup DOMAIN updateData |->
        IF f \in DOMAIN updateData THEN updateData[f] ELSE transaction[f]]

\* getTransactionsByUserId, as the set of ids (sums do not depend on the order)
UserTransactionIds(store, userId) == {k \in DOMAIN store : store[k].userId = userId}

\* (a, b) => new Date(b.date).getTime() - new Date(a.date).getTime(), a NaN
\* read as 0 by sort
ByDateDescending(a, b) ==
    IF isNaN(getTime(a.date)) \/ isNaN(getTime(b.date)) THEN 0
    ELSE getTime(b.date) - getTime(a.date)

\* x put into sorted behind every transaction that does not compare greater
RECURSIVE InsertByDate(_, _)
InsertByDate(sorted, x) ==
    IF sorted = <<>> THEN <<x>>
    ELSE IF ByDateDescending(sorted[Len(sorted)], x) <= 0 THEN Append(sorted, x)
    ELSE Append(InsertByDate(SubSeq(sorted, 1, Len(sorted) - 1), x), sorted[Len(sorted)])

\* the transactions of userId under the keys ids, in the order of the keys
\* (the order of insertion), sorted by date, the latest first
RECURSIVE SortedByDate(_, _, _)
SortedByDate(store, userId, ids) ==
    IF ids = {} THEN <<>>
    ELSE LET k == CHOOSE x \in ids : \A y \in ids : y <= x
         IN  IF store[k].userId = userId
             THEN InsertByDate(SortedByDate(store, userId, ids \ {k}), store[k])
             ELSE SortedByDate(store, userId, ids \ {k})

\* getTransactionsByUserId, as the array GET /api/transactions answers
getTransactionsByUserId(store, userId) == SortedByDate(store, userId, DOMAIN store)

\* getCategoriesByUserId
getCategoriesByUserId(cats, userId) == SelectSeq(cats, LAMBDA c : c.userId = userId)

-----------------------------------------------------------------------------
(* Floating-point sums with NaN *)

FAdd(a, b) == IF isNaN(a) \/ isNaN(b) THEN NaN ELSE a + b

\* a > b in JavaScript: false when either side is NaN
FGreater(a, b) == ~isNaN(a) /\ ~isNaN(b) /\ a > b

\* ids.reduce((sum, tx) => sum + parseFloat(tx.amount), 0)
RECURSIVE SumAmounts(_, _)
SumAmounts(store, ids) ==
    IF ids = {} THEN 0
    ELSE LET k == CHOOSE x \in ids : TRUE
         IN  FAdd(store[k].amount, SumAmounts(store, ids \ {k}))

RECURSIVE SumSeqAmounts(_)
SumSeqAmounts(items) ==
    IF items = <<>> THEN 0 ELSE FAdd(Head(items).amount, SumSeqAmounts(Tail(items)))

-----------------------------------------------------------------------------
(* HTTP handlers of routes.ts *)

NoResponse == [kind |-> "none", status |-> 0]

\* the category the upload handler gives a row
UploadCategory(desc, type, amount) ==
    IF includes(desc, "restaurant") \/ includes(desc, "food") \/ includes(desc, "starbucks")
    THEN "cat-1"
    ELSE IF includes(desc, "gas") \/ includes(desc, "uber") \/ includes(desc, "transport")
    THEN "cat-2"
    ELSE IF includes(desc, "movie") \/ includes(desc, "entertainment") \/ includes(desc, "netflix")
    THEN "cat-3"
    ELSE IF type = "income" \/ (amount > 0 /\ includes(desc, "salary"))
    THEN "cat-5"
    ELSE "cat-4"

\* the type the upload handler stores
UploadType(type, amount) == IF type = "income" \/ amount > 0 THEN "income" ELSE "expense"

\* transactions.push({...}) unless the amount is NaN or the date invalid
UploadRecord(date, description, amount, type) ==
    IF isNaN(amount) \/ ~date.valid THEN <<>>
    ELSE <<[description |-> description,
            amount      |-> Abs(amount),
            date        |-> date,
            type        |-> UploadType(type, amount),
            categoryId  |-> UploadCategory(toLowerCase(description), type, amount),
            userId      |-> DEFAULT_USER_ID]>>

\* one pass of the loop on the cells of a line: a line of fewer than four
\* cells is skipped
UploadRow(values) ==
    IF Len(values) < 4 THEN <<>>
    ELSE UploadRecord(NewDateFromString(trim(values[1])), trim(values[2]),
                      parseFloat(trim(values[3])), toLowerCase(trim(values[4])))

\* the loop of POST /api/upload/csv over the lines after the header: the
\* records pushed, a row that fails a test being skipped
RECURSIVE UploadRows(_, _)
UploadRows(lines, i) ==
    IF i > Len(lines) THEN <<>>
    ELSE UploadRow(split(lines[i], ",")) \o UploadRows(lines, i + 1)

\* insertTransactionSchema.parse accepts a body that has the required columns
ValidTransactionBody(body) == {"description", "amount", "date", "type"} \subseteq DOMAIN body

\* insertTransactionSchema.parse({ ...body, userId: DEFAULT_USER_ID })
InsertTransactionOf(body) ==
    [description |-> body.description,
     amount      |-> body.amount,
     date        |-> body.date,
     type        |-> body.type,
     categoryId  |-> IF "categoryId" \in DOMAIN body THEN body.categoryId ELSE null,
     userId      |-> DEFAULT_USER_ID]

\* POST /api/transactions
PostTransaction(body) ==
    /\ IF ValidTransactionBody(body)
       THEN LET r == createBulkTransactions(transactions, <<InsertTransactionOf(body)>>, nextId, <<>>)
            IN  /\ transactions' = r.store
                /\ nextId' = r.nextId
                /\ response' = [kind |-> "createTransaction", status |-> 200, ids |-> r.created]
       ELSE /\ response' = [kind |-> "createTransaction", status |-> 400]
            /\ UNCHANGED <<transactions, nextId>>
    /\ UNCHANGED <<clientVars, uploads, categories, budgets, savingsGoals, now>>

\* POST /api/transactions/bulk
PostBulkTransactions(bodies) ==
    /\ IF \A k \in 1..Len(bodies) : ValidTransactionBody(bodies[k])
       THEN LET r == createBulkTransactions(transactions,
                         [k \in 1..Len(bodies) |-> InsertTransactionOf(bodies[k])], nextId, <<>>)
            IN  /\ transactions' = r.store
                /\ nextId' = r.nextId
                /\ response' = [kind |-> "bulk", status |-> 200,
                                ids |-> r.created, count |-> Len(r.created)]
       ELSE /\ response' = [kind |-> "bulk", status |-> 400]
            /\ UNCHANGED <<transactions, nextId>>
    /\ UNCHANGED <<clientVars, uploads, categories, budgets, savingsGoals, now>>

\* PUT /api/transactions/:id, over MemStorage.updateTransaction
PutTransaction(id, updateData) ==
    /\ IF id \in DOMAIN transactions
       THEN /\ transactions' = [transactions EXCEPT ![id] = Merge(@, updateData)]
            /\ response' = [kind |-> "updateTransaction", status |-> 200, ids |-> <<id>>]
       ELSE /\ response' = [kind |-> "updateTransaction", status |-> 404]
            /\ UNCHANGED transactions
    /\ UNCHANGED <<clientVars, uploads, categories, budgets, savingsGoals, nextId, now>>

\* DELETE /api/transactions/:id, over MemStorage.deleteTransaction
DeleteTransaction(id) ==
    /\ IF id \in DOMAIN transactions
       THEN /\ transactions' = [k \in DOMAIN transactions \ {id} |-> transactions[k]]
            /\ response' = [kind |-> "deleteTransaction", status |-> 200]
       ELSE /\ response' = [kind |-> "deleteTransaction", status |-> 404]
            /\ UNCHANGED transactions
    /\ UNCHANGED <<clientVars, uploads, categories, budgets, savingsGoals, nextId, now>>

\* POST /api/upload/csv with the file text content
\* what the handler reads off the file text: its non-blank lines and the
\* records its loop pushes
UploadParse(content) ==
    LET lines == NonBlankLines(content)
    IN  [lines |-> Len(lines),
         pushed |-> IF Len(lines) < 2 THEN <<>> ELSE UploadRows(lines, 2)]

\* the handler, given the parse of the uploaded file
UploadHandler(parse) ==
    /\ IF parse.lines < 2
       THEN /\ response' = [kind |-> "upload", status |-> 400]
            /\ UNCHANGED <<transactions, nextId>>
       ELSE LET r == createBulkTransactions(transactions, parse.pushed, nextId, <<>>)
            IN  /\ transactions' = r.store
                /\ nextId' = r.nextId
                /\ response' = [kind |-> "upload", status |-> 200,
                                ids |-> r.created, count |-> Len(r.created)]
    /\ UNCHANGED <<clientVars, uploads, categories, budgets, savingsGoals, now>>

UploadCSV(content) == UploadHandler(UploadParse(content))

\* POST /api/upload/csv as it runs beside another request: the handler and
\* createBulkTransactions run until an await, where another request may run

\* Mutation of PushCreated: the transaction is put in front of the array
UnshiftCreated(created, id) == <<id>> \o created

\* transactions.push(transaction), the transactions held by their ids
PushCreated(created, id) == Append(created, id)

\* the first this.createTransaction(insertTx) of request u, up to the await on
\* its promise: the transaction is in the Map, under a new id
CreateAndAwait(u, content, insertTransactions) ==
    /\ transactions' = transactions @@
           (randomUUID(nextId) :> NewTransaction(insertTransactions[1], randomUUID(nextId)))
    /\ nextId' = randomUUID(nextId)
    /\ uploads' = [uploads EXCEPT ![u].pc = "awaiting",
                                  ![u].file = content,
                                  ![u].insertTransactions = insertTransactions,
                                  ![u].i = 1,
                                  ![u].awaited = randomUUID(nextId)]
    /\ UNCHANGED response

\* res.json(...) or res.status(400).json(...) of request u
Answer(u, content, r) ==
    /\ uploads' = [uploads EXCEPT ![u].pc = "done", ![u].file = content, ![u].response = r]
    /\ response' = r
    /\ UNCHANGED <<transactions, nextId>>

\* the request arrives: the handler reads the file and calls
\* createBulkTransactions, which runs to its first await
UploadReceived(u, content, parse) ==
    /\ uploads[u].pc = "idle"
    /\ IF parse.lines < 2 THEN Answer(u, content, [kind |-> "upload", status |-> 400])
       ELSE IF parse.pushed = <<>>
       THEN /\ uploads' = [uploads EXCEPT ![u].pc = "returning", ![u].file = content]
            /\ UNCHANGED <<transactions, nextId, response>>
       ELSE CreateAndAwait(u, content, parse.pushed)
    /\ UNCHANGED <<clientVars, categories, budgets, savingsGoals, now>>

\* the loop of createBulkTransactions goes on after an await: the transaction
\* is pushed, and the next one created, or the array returned
UploadResumed(u) ==
    /\ uploads[u].pc = "awaiting"
    /\ IF uploads[u].i < Len(uploads[u].insertTransactions)
       THEN /\ transactions' = transactions @@
                   (randomUUID(nextId) :>
                       NewTransaction(uploads[u].insertTransactions[uploads[u].i + 1],
                                      randomUUID(nextId)))
            /\ nextId' = randomUUID(nextId)
            /\ uploads' = [uploads EXCEPT
                               ![u].created = PushCreated(@, uploads[u].awaited),
                               ![u].i = @ + 1,
                               ![u].awaited = randomUUID(nextId)]
            /\ UNCHANGED response
       ELSE /\ uploads' = [uploads EXCEPT
                               ![u].created = PushCreated(@, uploads[u].awaited),
                               ![u].pc = "returning"]
            /\ UNCHANGED <<transactions, nextId, response>>
    /\ UNCHANGED <<clientVars, categories, budgets, savingsGoals, now>>

\* the handler goes on after its await on createBulkTransactions
UploadAnswered(u) ==
    /\ uploads[u].pc = "returning"
    /\ Answer(u, uploads[u].file, [kind |-> "upload", status |-> 200,
                  ids |-> uploads[u].created, count |-> Len(uploads[u].created)])
    /\ UNCHANGED <<clientVars, categories, budgets, savingsGoals, now>>

\* Mutation of CategorySpent: the type of the transaction is not tested
CategorySpentAnyType(store, category) ==
    SumAmounts(store, {k \in UserTransactionIds(store, DEFAULT_USER_ID) :
                          store[k].categoryId = category.id})

\* the amount GET /api/analytics/spending-by-category reports for a category
CategorySpent(store, category) ==
    SumAmounts(store, {k \in UserTransactionIds(store, DEFAULT_USER_ID) :
                          store[k].type = "expense" /\ store[k].categoryId = category.id})

spendingByCategory(store, cats) ==
    LET userCats == getCategoriesByUserId(cats, DEFAULT_USER_ID)
        categorySpending == [k \in 1..Len(userCats) |->
                                [id |-> userCats[k].id, name |-> userCats[k].name,
                                 amount |-> CategorySpent(store, userCats[k])]]
    IN  SelectSeq(categorySpending, LAMBDA cat : FGreater(cat.amount, 0))

\* GET /api/analytics/spending-by-category
GetSpendingByCategory ==
    /\ response' = [kind |-> "spendingByCategory", status |-> 200,
                    body |-> spendingByCategory(transactions, categories)]
    /\ UNCHANGED <<clientVars, uploads, transactions, categories, budgets, savingsGoals, nextId, now>>

-----------------------------------------------------------------------------
(* Budgets and savings goals: MemStorage and their handlers *)

\* Mutation of NewBudget: spent starts at the amount of the budget
NewBudgetSpent(insertBudget, id) ==
    [id         |-> id,
     name       |-> insertBudget.name,
     amount     |-> insertBudget.amount,
     spent      |-> insertBudget.amount,
     categoryId |-> IF insertBudget.categoryId \in {"", null} THEN null
                    ELSE insertBudget.categoryId,
     period     |-> insertBudget.period,
     startDate  |-> insertBudget.startDate,
     endDate    |-> insertBudget.endDate,
     userId     |-> insertBudget.userId,
     createdAt  |-> now]

\* createBudget: the stored Budget of an InsertBudget
NewBudget(insertBudget, id) ==
    [id         |-> id,
     name       |-> insertBudget.name,
     amount     |-> insertBudget.amount,
     spent      |-> 0,
     categoryId |-> IF insertBudget.categoryId \in {"", null} THEN null
                    ELSE insertBudget.categoryId,
     period     |-> insertBudget.period,
     startDate  |-> insertBudget.startDate,
     endDate    |-> insertBudget.endDate,
     userId     |-> insertBudget.userId,
     createdAt  |-> now]

\* createSavingsGoal: the stored SavingsGoal of an InsertSavingsGoal
NewSavingsGoal(insertGoal, id) ==
    [id            |-> id,
     name          |-> insertGoal.name,
     targetAmount  |-> insertGoal.targetAmount,
     currentAmount |-> 0,
     targetDate    |-> insertGoal.targetDate,
     userId        |-> insertGoal.userId,
     createdAt     |-> now]

\* insertBudgetSchema.parse accepts a body that has the required columns
ValidBudgetBody(body) ==
    {"name", "amount", "period", "startDate", "endDate"} \subseteq DOMAIN body

\* insertBudgetSchema.parse({ ...body, userId: DEFAULT_USER_ID }): the schema
\* omits id, createdAt and spent
InsertBudgetOf(body) ==
    [name       |-> body.name,
     amount     |-> body.amount,
     categoryId |-> IF "categoryId" \in DOMAIN body THEN body.categoryId ELSE null,
     period     |-> body.period,
     startDate  |-> body.startDate,
     endDate    |-> body.endDate,
     userId     |-> DEFAULT_USER_ID]

\* insertSavingsGoalSchema.parse accepts a body that has the required columns
ValidSavingsGoalBody(body) == {"name", "targetAmount"} \subseteq DOMAIN body

\* insertSavingsGoalSchema.parse({ ...body, userId: DEFAULT_USER_ID }): the
\* schema omits id, createdAt and currentAmount
InsertSavingsGoalOf(body) ==
    [name         |-> body.name,
     targetAmount |-> body.targetAmount,
     targetDate   |-> IF "targetDate" \in DOMAIN body THEN body.targetDate ELSE null,
     userId       |-> DEFAULT_USER_ID]

\* POST /api/budgets
PostBudget(body) ==
    /\ IF ValidBudgetBody(body)
       THEN LET id == randomUUID(nextId)
            IN  /\ budgets' = budgets @@ (id :> NewBudget(InsertBudgetOf(body), id))
                /\ nextId' = id
                /\ response' = [kind |-> "createBudget", status |-> 200, ids |-> <<id>>]
       ELSE /\ response' = [kind |-> "createBudget", status |-> 400]
            /\ UNCHANGED <<budgets, nextId>>
    /\ UNCHANGED <<clientVars, uploads, transactions, categories, savingsGoals, now>>

\* PUT /api/budgets/:id, over MemStorage.updateBudget
PutBudget(id, updateData) ==
    /\ IF id \in DOMAIN budgets
       THEN /\ budgets' = [budgets EXCEPT ![id] = Merge(@, updateData)]
            /\ response' = [kind |-> "updateBudget", status |-> 200, ids |-> <<id>>]
       ELSE /\ response' = [kind |-> "updateBudget", status |-> 404]
            /\ UNCHANGED budgets
    /\ UNCHANGED <<clientVars, uploads, transactions, categories, savingsGoals, nextId, now>>

\* DELETE /api/budgets/:id, over MemStorage.deleteBudget
DeleteBudget(id) ==
    /\ IF id \in DOMAIN budgets
       THEN /\ budgets' = [k \in DOMAIN budgets \ {id} |-> budgets[k]]
            /\ response' = [kind |-> "deleteBudget", status |-> 200]
       ELSE /\ response' = [kind |-> "deleteBudget", status |-> 404]
            /\ UNCHANGED budgets
    /\ UNCHANGED <<clientVars, uploads, transactions, categories, savingsGoals, nextId, now>>

\* POST /api/savings-goals
PostSavingsGoal(body) ==
    /\ IF ValidSavingsGoalBody(body)
       THEN LET id == randomUUID(nextId)
            IN  /\ savingsGoals' = savingsGoals @@ (id :> NewSavingsGoal(InsertSavingsGoalOf(body), id))
                /\ nextId' = id
                /\ response' = [kind |-> "createSavingsGoal", status |-> 200, ids |-> <<id>>]
       ELSE /\ response' = [kind |-> "createSavingsGoal", status |-> 400]
            /\ UNCHANGED <<savingsGoals, nextId>>
    /\ UNCHANGED <<clientVars, uploads, transactions, categories, budgets, now>>

\* PUT /api/savings-goals/:id, over MemStorage.updateSavingsGoal
PutSavingsGoal(id, updateData) ==
    /\ IF id \in DOMAIN savingsGoals
       THEN /\ savingsGoals' = [savingsGoals EXCEPT ![id] = Merge(@, updateData)]
            /\ response' = [kind |-> "updateSavingsGoal", status |-> 200, ids |-> <<id>>]
       ELSE /\ response' = [kind |-> "updateSavingsGoal", status |-> 404]
            /\ UNCHANGED savingsGoals
    /\ UNCHANGED <<clientVars, uploads, transactions, categories, budgets, nextId, now>>

\* DELETE /api/savings-goals/:id, over MemStorage.deleteSavingsGoal
DeleteSavingsGoal(id) ==
    /\ IF id \in DOMAIN savingsGoals
       THEN /\ savingsGoals' = [k \in DOMAIN savingsGoals \ {id} |-> savingsGoals[k]]
            /\ response' = [kind |-> "deleteSavingsGoal", status |-> 200]
       ELSE /\ response' = [kind |-> "deleteSavingsGoal", status |-> 404]
            /\ UNCHANGED savingsGoals
    /\ UNCHANGED <<clientVars, uploads, transactions, categories, budgets, nextId, now>>

-----------------------------------------------------------------------------
(* GET /api/analytics/summary *)

FSub(a, b) == IF isNaN(a) \/ isNaN(b) THEN NaN ELSE a - b

\* new Date(now.getFullYear(), now.getMonth(), 1)
monthStart(today) == NewDateYMD(today.y, today.m - 1, 1)

\* records.reduce((sum, r) => sum + parseFloat(r[column] || "0"), 0); the
\* column holds a number in every record of the model
RECURSIVE SumColumn(_, _, _)
SumColumn(store, ids, column) ==
    IF ids = {} THEN 0
    ELSE LET k == CHOOSE x \in ids : TRUE
         IN  FAdd(store[k][column], SumColumn(store, ids \ {k}, column))

\* Math.round(x / y * 100) for y > 0
RoundedPercent(x, y) == (200 * x + y) \div (2 * y)

\* transactions.filter(tx => tx.type === 'income').reduce(...)
totalIncome(store) ==
    SumAmounts(store, {k \in UserTransactionIds(store, DEFAULT_USER_ID) : store[k].type = "income"})

\* Mutation of totalExpenses: the type of the transaction is not tested
totalExpensesAnyType(store) ==
    SumAmounts(store, UserTransactionIds(store, DEFAULT_USER_ID))

\* transactions.filter(tx => tx.type === 'expense').reduce(...)
totalExpenses(store) ==
    SumAmounts(store, {k \in UserTransactionIds(store, DEFAULT_USER_ID) : store[k].type = "expense"})

\* monthlyExpenses
monthlyExpenses(store, today) ==
    SumAmounts(store, {k \in UserTransactionIds(store, DEFAULT_USER_ID) :
                          store[k].type = "expense" /\ DateGE(store[k].date, monthStart(today))})

\* Math.round(savingsProgress)
savingsProgressOf(totalCurrentSavings, totalTargetSavings) ==
    IF ~FGreater(totalTargetSavings, 0) THEN 0
    ELSE IF isNaN(totalCurrentSavings) THEN NaN
    ELSE RoundedPercent(totalCurrentSavings, totalTargetSavings)

\* the body of the summary response
analyticsSummary(store, budgetStore, goalStore, today) ==
    LET budgetIds == {k \in DOMAIN budgetStore : budgetStore[k].userId = DEFAULT_USER_ID}
        goalIds   == {k \in DOMAIN goalStore : goalStore[k].userId = DEFAULT_USER_ID}
    IN  [totalBalance    |-> FSub(totalIncome(store), totalExpenses(store)),
         monthlySpending |-> monthlyExpenses(store, today),
         savingsProgress |-> savingsProgressOf(SumColumn(goalStore, goalIds, "currentAmount"),
                                               SumColumn(goalStore, goalIds, "targetAmount")),
         budgetRemaining |-> FSub(SumColumn(budgetStore, budgetIds, "amount"),
                                  SumColumn(budgetStore, budgetIds, "spent"))]

GetAnalyticsSummary ==
    /\ response' = [kind |-> "summary", status |-> 200,
                    body |-> analyticsSummary(transactions, budgets, savingsGoals, now)]
    /\ UNCHANGED <<clientVars, uploads, transactions, categories, budgets, savingsGoals, nextId, now>>

-----------------------------------------------------------------------------
(* Reports page (client/src/pages/categories.tsx): monthlyTrends.  Dates    *)
(* are calendar days, read in the time zone they were written in.           *)

\* a number 0..9999 in four decimal digits
FourDigits(n) ==
    CharAt(Digits, ((n \div 1000) % 10) + 1) \o CharAt(Digits, ((n \div 100) % 10) + 1)
        \o CharAt(Digits, ((n \div 10) % 10) + 1) \o CharAt(Digits, (n % 10) + 1)

ShortMonths == <<"Jan", "Feb", "Mar", "Apr", "May", "Jun",
                 "Jul", "Aug", "Sep", "Oct", "Nov", "Dec">>

\* `${date.getFullYear()}-${String(date.getMonth() + 1).padStart(2, '0')}`
monthKey(date) ==
    FourDigits(date.y) \o "-" \o CharAt(Digits, (date.m \div 10) + 1) \o CharAt(Digits, (date.m % 10) + 1)

\* date.toLocaleDateString('en-US', { month: 'short', year: 'numeric' })
monthName(date) == ShortMonths[date.m] \o " " \o FourDigits(date.y)

\* the order of the characters in the collation of localeCompare: the space,
\* the digits, then the letters, a lower-case letter before its upper case
CollationOrder == " 0123456789aAbBcCdDeEfFgGhHiIjJkKlLmMnNoOpPqQrRsStTuUvVwWxXyYzZ"

\* a.localeCompare(b) from character i on: -1, 0 or 1
RECURSIVE localeCompareFrom(_, _, _)
localeCompareFrom(a, b, i) ==
    IF i > Len(a) /\ i > Len(b) THEN 0
    ELSE IF i > Len(a) THEN -1
    ELSE IF i > Len(b) THEN 1
    ELSE IF CharAt(a, i) = CharAt(b, i) THEN localeCompareFrom(a, b, i + 1)
    ELSE IF IndexOfChar(CharAt(a, i), CollationOrder) < IndexOfChar(CharAt(b, i), CollationOrder)
    THEN -1 ELSE 1

localeCompare(a, b) == localeCompareFrom(a, b, 1)

\* the position of the bucket of key among buckets, 0 when there is none
BucketOf(buckets, key) ==
    LET found == {k \in 1..Len(buckets) : buckets[k].key = key}
    IN  IF found = {} THEN 0 ELSE CHOOSE k \in found : TRUE

\* monthlyData[monthKey].income += amount, or .expenses += amount
AddToBucket(bucket, tx) ==
    IF tx.type = "income" THEN [bucket EXCEPT !.income = FAdd(@, tx.amount)]
    ELSE [bucket EXCEPT !.expenses = FAdd(@, tx.amount)]

\* one pass of the forEach: the bucket of the month is created when missing,
\* then the amount is added to it; k is the position of the bucket, or 0
AddToMonth(buckets, tx, k) ==
    IF k = 0
    THEN Append(buckets, AddToBucket([key |-> monthKey(tx.date), month |-> monthName(tx.date),
                                      income |-> 0, expenses |-> 0], tx))
    ELSE [buckets EXCEPT ![k] = AddToBucket(@, tx)]

\* monthlyData after the forEach over txs from position i, its keys in the
\* order of their creation
RECURSIVE monthlyData(_, _, _)
monthlyData(txs, i, buckets) ==
    IF i > Len(txs) THEN buckets
    ELSE monthlyData(txs, i + 1,
                     AddToMonth(buckets, txs[i], BucketOf(buckets, monthKey(txs[i].date))))

\* x put into sorted behind every entry whose month does not compare greater
RECURSIVE InsertByMonth(_, _)
InsertByMonth(sorted, x) ==
    IF sorted = <<>> THEN <<x>>
    ELSE IF localeCompare(sorted[Len(sorted)].month, x.month) <= 0 THEN Append(sorted, x)
    ELSE Append(InsertByMonth(SubSeq(sorted, 1, Len(sorted) - 1), x), sorted[Len(sorted)])

\* values.sort((a, b) => a.month.localeCompare(b.month)), on the first n values
RECURSIVE SortByMonth(_, _)
SortByMonth(values, n) ==
    IF n = 0 THEN <<>> ELSE InsertByMonth(SortByMonth(values, n - 1), values[n])

\* the { income, expenses, month } objects of the buckets
TrendsOf(buckets) ==
    [k \in 1..Len(buckets) |-> [month |-> buckets[k].month, income |-> buckets[k].income,
                                expenses |-> buckets[k].expenses]]

\* Object.values(monthlyData).sort(...)
monthlyTrendsOf(txs) ==
    TrendsOf(SortByMonth(monthlyData(txs, 1, <<>>), Len(monthlyData(txs, 1, <<>>))))

\* getTimeRangeData: the first day of the window of the selected range
startDate(range, today) ==
    IF range = "1month" THEN NewDateYMD(today.y, today.m - 1, 1)
    ELSE IF range = "3months" THEN NewDateYMD(today.y, today.m - 1 - 2, 1)
    ELSE IF range = "6months" THEN NewDateYMD(today.y, today.m - 1 - 5, 1)
    ELSE IF range = "1year" THEN NewDateYMD(today.y - 1, today.m - 1, 1)
    ELSE NewDateYMD(today.y, today.m - 1 - 5, 1)

\* transactions.filter(tx => new Date(tx.date) >= startDate)
timeRangeData(txs, range, today) ==
    SelectSeq(txs, LAMBDA tx : DateGE(tx.date, startDate(range, today)))

\* categories.find(cat => cat.id === transactionCategoryId)?.name || 'Uncategorized'
categoryName(cats, transactionCategoryId) ==
    LET found == {k \in 1..Len(cats) : cats[k].id = transactionCategoryId}
    IN  IF found = {} THEN "Uncategorized"
        ELSE IF cats[CHOOSE k \in found : \A j \in found : k <= j].name = "" THEN "Uncategorized"
        ELSE cats[CHOOSE k \in found : \A j \in found : k <= j].name

\* the position of the entry of name among entries, 0 when there is none
EntryOf(entries, name) ==
    LET found == {k \in 1..Len(entries) : entries[k].name = name}
    IN  IF found = {} THEN 0 ELSE CHOOSE k \in found : TRUE

\* one pass of the forEach on an expense: the entry of the category name is
\* created when missing, then the amount is added to it (the color of the
\* category goes with its name and is left out); k is the position of the
\* entry, or 0
AddToCategory(entries, name, amount, k) ==
    IF k = 0 THEN Append(entries, [name |-> name, amount |-> FAdd(0, amount)])
    ELSE [entries EXCEPT ![k].amount = FAdd(@, amount)]

\* categoryData after the forEach over txs from position i, its keys in the
\* order of their creation
RECURSIVE categoryData(_, _, _, _)
categoryData(txs, cats, i, entries) ==
    IF i > Len(txs) THEN entries
    ELSE IF txs[i].type # "expense" THEN categoryData(txs, cats, i + 1, entries)
    ELSE categoryData(txs, cats, i + 1,
             AddToCategory(entries, categoryName(cats, txs[i].categoryId), txs[i].amount,
                           EntryOf(entries, categoryName(cats, txs[i].categoryId))))

\* (a, b) => b.amount - a.amount, a NaN read as 0 by sort
ByAmount(a, b) == IF isNaN(a.amount) \/ isNaN(b.amount) THEN 0 ELSE b.amount - a.amount

\* x put into sorted behind every entry that does not compare greater
RECURSIVE InsertByAmount(_, _)
InsertByAmount(sorted, x) ==
    IF sorted = <<>> THEN <<x>>
    ELSE IF ByAmount(sorted[Len(sorted)], x) <= 0 THEN Append(sorted, x)
    ELSE Append(InsertByAmount(SubSeq(sorted, 1, Len(sorted) - 1), x), sorted[Len(sorted)])

\* values.sort((a, b) => b.amount - a.amount), on the first n values
RECURSIVE SortByAmount(_, _)
SortByAmount(values, n) ==
    IF n = 0 THEN <<>> ELSE InsertByAmount(SortByAmount(values, n - 1), values[n])

\* Object.values(categoryData).sort(...)
categoryBreakdownOf(txs, cats) ==
    SortByAmount(categoryData(txs, cats, 1, <<>>), Len(categoryData(txs, cats, 1, <<>>)))

-----------------------------------------------------------------------------
(* Inputs of the parser, and the specification of CSV ingestion: one file   *)
(* text, parsed by CSVParser.parseCSV and uploaded to the server            *)

MaxRows == 3

HeaderLines == {
    "date,description,amount,type",
    "Transaction Date,Memo,Value",
    "date,description",
    "id,note",
    "" }

DataLines == {
    "2024-01-15,Starbucks Coffee,4.85,expense",
    "2024-01-16,Food refund,12.50,income",
    "2024-01-17,Loan payment,250.00,expense",
    "2024-01-18,Amazon Purchase,abc,expense",
    "2024-13-40,Bad Date,10.00,expense",
    "   " }

ParseOptions == {
    [hasHeader |-> TRUE,  delimiter |-> ","],
    [hasHeader |-> FALSE, delimiter |-> ","],
    [hasHeader |-> TRUE,  delimiter |-> ";"] }

RECURSIVE FileText(_)
FileText(lineSeq) ==
    IF lineSeq = <<>> THEN "" ELSE Head(lineSeq) \o "\n" \o FileText(Tail(lineSeq))

SeqsUpTo(S, n) == UNION { [1..k -> S] : k \in 0..n }

NoResult == [transactions |-> <<>>, errors |-> <<>>, totalRows |-> -1, validRows |-> -1]

\* the day the server's clock reads
Today == [valid |-> TRUE, y |-> 2024, m |-> 1, d |-> 20]

\* the requests that may be in flight at the same time
Requests == {1, 2}

\* a request not received yet
NoUpload == [pc |-> "idle", file |-> "", insertTransactions |-> <<>>, i |-> 0, awaited |-> 0,
             created |-> <<>>, response |-> NoResponse]

ServerInit ==
    /\ uploads = [u \in Requests |-> NoUpload]
    /\ transactions = <<>>
    /\ categories = initializeDefaultData
    /\ budgets = <<>>
    /\ savingsGoals = <<>>
    /\ nextId = 0
    /\ now = Today
    /\ response = NoResponse

\* columnIndex before the call
NotCalled == -2

\* monthlyTrends before the Reports page computes it
NotComputed == <<[month |-> "", income |-> -1, expenses |-> -1]>>

\* categoryBreakdown before the Reports page computes it
NoBreakdown == <<[name |-> "", amount |-> -1]>>

\* lineFields before the lines are tokenized: no line has no cell
NotTokenized == << <<>> >>

\* no findColumnIndex call and no Reports page
NoCalls ==
    /\ headerCells = <<>>
    /\ aliasNames = <<>>
    /\ columnIndex = NotCalled
    /\ getTimeRangeData = <<>>
    /\ monthlyTrends = NotComputed
    /\ timeRange = "6months"
    /\ categoryBreakdown = NoBreakdown
    /\ lineFields = NotTokenized

InitCSV ==
    /\ \E h \in HeaderLines, rows \in SeqsUpTo(DataLines, MaxRows) :
           csvContent = FileText(<<h>> \o rows)
    /\ options \in ParseOptions
    /\ result = NoResult
    /\ NoCalls
    /\ ServerInit

\* CSVParser.parseCSV(csvContent, options)
ParseCSV ==
    /\ result = NoResult
    /\ result' = parseCSV(csvContent, options)
    /\ UNCHANGED <<csvContent, options, columnVars, reportVars, lineFields, serverVars>>

\* the same file sent to POST /api/upload/csv
UploadCsvFile ==
    /\ response = NoResponse
    /\ UploadCSV(csvContent)

NextCSV == ParseCSV \/ UploadCsvFile

SpecCSV == InitCSV /\ [][NextCSV]_vars

-----------------------------------------------------------------------------
(* The specification of the server: any sequence of requests *)

MaxIds == 2

ADate == [valid |-> TRUE, y |-> 2024, m |-> 1, d |-> 15]

\* a day of the month before Today's
LastMonth == [valid |-> TRUE, y |-> 2023, m |-> 12, d |-> 30]

RequestBodies == {
    [description |-> "Lunch", amount |-> 1250, date |-> ADate, type |-> "expense", categoryId |-> "cat-1"],
    [description |-> "Gift",  amount |-> 2000, date |-> LastMonth, type |-> "expense"],
    [description |-> "No amount", date |-> ADate, type |-> "expense"] }

UpdateBodies == {
    [categoryId |-> null],
    [amount |-> -300],
    [type |-> "income"],
    [userId |-> "other-user"] }

UploadFiles == {
    "date,description,amount,type\n2024-01-15,Starbucks Coffee,4.85,expense\n2024-01-21,Uber ride,-18.00,expense\n",
    "date,description,amount,type\n" }

\* the parse of each file of UploadFiles
UploadParses == [content \in UploadFiles |-> UploadParse(content)]

Init ==
    /\ csvContent = ""
    /\ options = [hasHeader |-> TRUE, delimiter |-> ","]
    /\ result = NoResult
    /\ NoCalls
    /\ ServerInit

Next ==
    \/ \E body \in RequestBodies : PostTransaction(body) /\ nextId' <= MaxIds
    \/ \E bodies \in SeqsUpTo(RequestBodies, 2) : PostBulkTransactions(bodies) /\ nextId' <= MaxIds
    \/ \E id \in 1..MaxIds, updateData \in UpdateBodies : PutTransaction(id, updateData)
    \/ \E id \in 1..MaxIds : DeleteTransaction(id)
    \/ \E content \in UploadFiles : UploadHandler(UploadParses[content]) /\ nextId' <= MaxIds
    \/ GetSpendingByCategory
    \/ GetAnalyticsSummary

Spec == Init /\ [][Next]_vars

-----------------------------------------------------------------------------
(* The specification of the end-to-end scenario: a file of the scenario's   *)
(* rows is parsed by CSVParser.parseCSV, uploaded to the server, and the    *)
(* summary is read                                                          *)

ScenarioLines == {
    "2024-01-15,Starbucks Coffee,4.85,expense",
    "2024-01-15,Salary Deposit,3200.00,income",
    "2024-01-16,Amazon Purchase,47.99,expense" }

InitScenario ==
    /\ \E rows \in SeqsUpTo(ScenarioLines, MaxRows) :
           csvContent = FileText(<<"date,description,amount,type">> \o rows)
    /\ options = [hasHeader |-> TRUE, delimiter |-> ","]
    /\ result = NoResult
    /\ NoCalls
    /\ ServerInit

NextScenario == ParseCSV \/ UploadCsvFile \/ GetAnalyticsSummary

SpecScenario == InitScenario /\ [][NextScenario]_vars

-----------------------------------------------------------------------------
(* The specification of amount normalization: a file of one row, whose      *)
(* amount cell is a decimal magnitude written in one of four forms, is      *)
(* parsed by CSVParser.parseCSV; the header has no type column              *)

\* decimal magnitudes as written, with their value in hundredths
Magnitudes == {
    [text |-> "0",         cents |-> 0],
    [text |-> "0.01",      cents |-> 1],
    [text |-> "4.85",      cents |-> 485],
    [text |-> "12",        cents |-> 1200],
    [text |-> "47.99",     cents |-> 4799],
    [text |-> "250.00",    cents |-> 25000],
    [text |-> "1234.56",   cents |-> 123456],
    [text |-> "1,234.56",  cents |-> 123456],
    [text |-> "3200.00",   cents |-> 320000],
    [text |-> "3,200.00",  cents |-> 320000],
    [text |-> "1,000,000", cents |-> 100000000] }

AmountForms == {"plain", "dollar", "parenthesised", "minus"}

AmountDescriptions == {"Salary", "Coffee"}

\* the magnitude text in a form
AmountCell(text, form) ==
    IF form = "dollar" THEN "$" \o text
    ELSE IF form = "parenthesised" THEN "(" \o text \o ")"
    ELSE IF form = "minus" THEN "-" \o text
    ELSE text

\* a cell of a comma-delimited line: in double quotes when it holds a comma
QuotedCell(cell) == IF includes(cell, ",") THEN "\"" \o cell \o "\"" ELSE cell

AmountFile(text, form, description) ==
    FileText(<<"date,description,amount",
               "2024-01-15," \o description \o "," \o QuotedCell(AmountCell(text, form))>>)

InitAmounts ==
    /\ \E m \in Magnitudes, form \in AmountForms, description \in AmountDescriptions :
           csvContent = AmountFile(m.text, form, description)
    /\ options = [hasHeader |-> TRUE, delimiter |-> ","]
    /\ result = NoResult
    /\ NoCalls
    /\ ServerInit

NextAmounts == ParseCSV

SpecAmounts == InitAmounts /\ [][NextAmounts]_vars

-----------------------------------------------------------------------------
(* The specification of type inference: a file of one row under a header    *)
(* without a type column, its amount a magnitude in one of the four forms   *)
(* and its description with or without an income word, is parsed by         *)
(* CSVParser.parseCSV                                                        *)

\* descriptions as written; incomeWord says whether salary, deposit or refund
\* occurs in the text, in any case
InferenceDescriptions == {
    [text |-> "Monthly SALARY",  incomeWord |-> TRUE],
    [text |-> "Bank deposit",    incomeWord |-> TRUE],
    [text |-> "Tax Refund 2023", incomeWord |-> TRUE],
    [text |-> "Payroll",         incomeWord |-> FALSE],
    [text |-> "Sal ary",         incomeWord |-> FALSE],
    [text |-> "Coffee",          incomeWord |-> FALSE] }

InitInference ==
    /\ \E m \in Magnitudes, form \in AmountForms, description \in InferenceDescriptions :
           csvContent = AmountFile(m.text, form, description.text)
    /\ options = [hasHeader |-> TRUE, delimiter |-> ","]
    /\ result = NoResult
    /\ NoCalls
    /\ ServerInit

NextInference == ParseCSV

SpecInference == InitInference /\ [][NextInference]_vars

-----------------------------------------------------------------------------
(* The specification of the monthly trend: the Reports page computes        *)
(* monthlyTrends from the transactions of the selected time range           *)

MaxTransactions == 3

\* transactions as the page receives them
WindowTransactions == {
    [date |-> [valid |-> TRUE, y |-> 2023, m |-> 12, d |-> 30], amount |-> 2000,   type |-> "expense"],
    [date |-> [valid |-> TRUE, y |-> 2024, m |-> 1,  d |-> 15], amount |-> 485,    type |-> "expense"],
    [date |-> [valid |-> TRUE, y |-> 2024, m |-> 1,  d |-> 16], amount |-> 320000, type |-> "income"],
    [date |-> [valid |-> TRUE, y |-> 2024, m |-> 2,  d |-> 3],  amount |-> 1250,   type |-> "expense"],
    [date |-> [valid |-> TRUE, y |-> 2024, m |-> 4,  d |-> 10], amount |-> 4799,   type |-> "income"] }

InitTrends ==
    /\ getTimeRangeData \in SeqsUpTo(WindowTransactions, MaxTransactions)
    /\ monthlyTrends = NotComputed
    /\ timeRange = "6months"
    /\ categoryBreakdown = NoBreakdown
    /\ lineFields = NotTokenized
    /\ csvContent = ""
    /\ options = [hasHeader |-> TRUE, delimiter |-> ","]
    /\ result = NoResult
    /\ headerCells = <<>>
    /\ aliasNames = <<>>
    /\ columnIndex = NotCalled
    /\ ServerInit

\* the useMemo of monthlyTrends
ComputeMonthlyTrends ==
    /\ monthlyTrends = NotComputed
    /\ monthlyTrends' = monthlyTrendsOf(getTimeRangeData)
    /\ UNCHANGED <<csvContent, options, result, columnVars, getTimeRangeData, timeRange,
                   categoryBreakdown, lineFields, serverVars>>

NextTrends == ComputeMonthlyTrends

SpecTrends == InitTrends /\ [][NextTrends]_vars

-----------------------------------------------------------------------------
(* The specification of the server with budgets and savings goals: any      *)
(* sequence of requests on transactions, budgets, savings goals and         *)
(* analytics                                                                 *)

MaxEntities == 3

TransactionBodies == {
    [description |-> "Lunch", amount |-> 1250, date |-> ADate, type |-> "expense", categoryId |-> "cat-1"] }

TransactionUpdates == { [createdAt |-> LastMonth] }

BudgetBodies == {
    [name |-> "Food", amount |-> 30000, spent |-> 9900, categoryId |-> "cat-1", period |-> "monthly",
     startDate |-> [valid |-> TRUE, y |-> 2024, m |-> 1, d |-> 1],
     endDate   |-> [valid |-> TRUE, y |-> 2024, m |-> 1, d |-> 31]] }

BudgetUpdates == { [spent |-> 5000] }

SavingsGoalBodies == { [name |-> "Holiday", targetAmount |-> 100000, currentAmount |-> 7700] }

SavingsGoalUpdates == { [currentAmount |-> 25000] }

FrameFiles == { "date,description,amount,type\n2024-01-21,Uber ride,-18.00,expense\n" }

\* the parse of each file of FrameFiles
FrameParses == [content \in FrameFiles |-> UploadParse(content)]

NextFrame ==
    \/ \E body \in TransactionBodies : PostTransaction(body) /\ nextId' <= MaxEntities
    \/ \E body \in TransactionBodies : PostBulkTransactions(<<body>>) /\ nextId' <= MaxEntities
    \/ \E id \in 1..MaxEntities, updateData \in TransactionUpdates : PutTransaction(id, updateData)
    \/ \E id \in 1..MaxEntities : DeleteTransaction(id)
    \/ \E content \in FrameFiles : UploadHandler(FrameParses[content]) /\ nextId' <= MaxEntities
    \/ GetSpendingByCategory
    \/ GetAnalyticsSummary
    \/ \E body \in BudgetBodies : PostBudget(body) /\ nextId' <= MaxEntities
    \/ \E id \in 1..MaxEntities, updateData \in BudgetUpdates : PutBudget(id, updateData)
    \/ \E id \in 1..MaxEntities : DeleteBudget(id)
    \/ \E body \in SavingsGoalBodies : PostSavingsGoal(body) /\ nextId' <= MaxEntities
    \/ \E id \in 1..MaxEntities, updateData \in SavingsGoalUpdates : PutSavingsGoal(id, updateData)
    \/ \E id \in 1..MaxEntities : DeleteSavingsGoal(id)

SpecFrame == Init /\ [][NextFrame]_vars

-----------------------------------------------------------------------------
(* The specification of column resolution: one call of                     *)
(* CSVParser.findColumnIndex on a header row and a list of aliases          *)

MaxCols == 3

MaxNames == 2

HeaderCells == {"Amount ", "Net Value", "Val", "Memo"}

AliasNames == {"amount", "VALUE", "memo", "date"}

InitColumns ==
    /\ headerCells \in SeqsUpTo(HeaderCells, MaxCols)
    /\ aliasNames \in SeqsUpTo(AliasNames, MaxNames)
    /\ columnIndex = NotCalled
    /\ csvContent = ""
    /\ options = [hasHeader |-> TRUE, delimiter |-> ","]
    /\ result = NoResult
    /\ getTimeRangeData = <<>>
    /\ monthlyTrends = NotComputed
    /\ timeRange = "6months"
    /\ categoryBreakdown = NoBreakdown
    /\ lineFields = NotTokenized
    /\ ServerInit

\* CSVParser.findColumnIndex(headerCells, aliasNames)
FindColumnIndex ==
    /\ columnIndex = NotCalled
    /\ columnIndex' = findColumnIndex(headerCells, aliasNames)
    /\ UNCHANGED <<csvContent, options, result, headerCells, aliasNames, reportVars,
                   lineFields, serverVars>>

NextColumns == FindColumnIndex

SpecColumns == InitColumns /\ [][NextColumns]_vars

-----------------------------------------------------------------------------
(* The specification of short rows: a file whose rows have one to four      *)
(* cells, under headers with the type column last, first or absent, is      *)
(* parsed by CSVParser.parseCSV                                              *)

ShortHeaders == {
    "date,description,amount,type",
    "type,date,description,amount",
    "date,description,amount" }

ShortRows == {
    "2024-01-15,Salary,100.00,income",
    "2024-01-16,Refund,20.00",
    "expense,2024-01-17",
    "someday,,abc",
    "x" }

InitShort ==
    /\ \E h \in ShortHeaders, rows \in SeqsUpTo(ShortRows, MaxRows) :
           csvContent = FileText(<<h>> \o rows)
    /\ options = [hasHeader |-> TRUE, delimiter |-> ","]
    /\ result = NoResult
    /\ NoCalls
    /\ ServerInit

NextShort == ParseCSV

SpecShort == InitShort /\ [][NextShort]_vars

-----------------------------------------------------------------------------
(* The specification of the rows of a parse: CSVParser.parseCSV alone, on   *)
(* files whose header resolves, lacks a column or is blank                  *)

RowHeaders == HeaderLines \ {"id,note"}

RowLines == DataLines \ {"2024-01-17,Loan payment,250.00,expense"}

InitRows ==
    /\ \E h \in RowHeaders, rows \in SeqsUpTo(RowLines, MaxRows) :
           csvContent = FileText(<<h>> \o rows)
    /\ options \in ParseOptions
    /\ result = NoResult
    /\ NoCalls
    /\ ServerInit

NextRows == ParseCSV

SpecRows == InitRows /\ [][NextRows]_vars

-----------------------------------------------------------------------------
(* The specification of the category breakdown: the Reports page renders    *)
(* the transactions of the store and the user selects a time range          *)

ReportDate(y, m, d) == [valid |-> TRUE, y |-> y, m |-> m, d |-> d]

ReportBody(description, amount, date, type, categoryId) ==
    [description |-> description, amount |-> amount, date |-> date, type |-> type,
     categoryId |-> categoryId, userId |-> DEFAULT_USER_ID]

ReportBodies == {
    ReportBody("Starbucks",   485,    ReportDate(2024, 1, 5),   "expense", "cat-1"),
    ReportBody("Salary",      320000, ReportDate(2024, 1, 16),  "income",  "cat-5"),
    ReportBody("Cash",        700,    ReportDate(2023, 12, 30), "expense", null),
    ReportBody("Uber",        2000,   ReportDate(2023, 11, 10), "expense", "cat-2"),
    ReportBody("Pizza",       1250,   ReportDate(2023, 10, 31), "expense", "cat-1"),
    ReportBody("Amazon",      4799,   ReportDate(2023, 8, 1),   "expense", "cat-4"),
    ReportBody("Train",       30000,  ReportDate(2023, 2, 1),   "expense", "cat-2"),
    ReportBody("Netflix",     1599,   ReportDate(2023, 1, 15),  "expense", "cat-3") }

TimeRanges == {"1month", "3months", "6months", "1year"}

InitBreakdown ==
    /\ now = Today
    /\ \E bodies \in SeqsUpTo(ReportBodies, MaxTransactions) :
           /\ transactions = createBulkTransactions(<<>>, bodies, 0, <<>>).store
           /\ nextId = Len(bodies)
    /\ categories = initializeDefaultData
    /\ budgets = <<>>
    /\ savingsGoals = <<>>
    /\ response = NoResponse
    /\ uploads = [u \in Requests |-> NoUpload]
    /\ csvContent = ""
    /\ options = [hasHeader |-> TRUE, delimiter |-> ","]
    /\ result = NoResult
    /\ NoCalls

\* the three memos of a render, of the transactions of the time range
Memos(data) ==
    /\ getTimeRangeData' = data
    /\ monthlyTrends' = monthlyTrendsOf(data)
    /\ categoryBreakdown' =
           categoryBreakdownOf(data, getCategoriesByUserId(categories, DEFAULT_USER_ID))

\* a render of the Reports page over the answer of GET /api/transactions
Render(range) ==
    /\ Memos(timeRangeData(getTransactionsByUserId(transactions, DEFAULT_USER_ID), range, now))
    /\ UNCHANGED <<csvContent, options, result, columnVars, lineFields, serverVars>>

\* the first render, with the time range of useState
RenderReports ==
    /\ categoryBreakdown = NoBreakdown
    /\ Render(timeRange)
    /\ UNCHANGED timeRange

\* setTimeRange(range) and the render it causes
SetTimeRange(range) ==
    /\ categoryBreakdown # NoBreakdown
    /\ timeRange' = range
    /\ Render(range)

NextBreakdown == RenderReports \/ \E range \in TimeRanges : SetTimeRange(range)

SpecBreakdown == InitBreakdown /\ [][NextBreakdown]_vars

-----------------------------------------------------------------------------
(* The specification of concurrent uploads: two POST /api/upload/csv        *)
(* requests, each of one of the files, run from await to await in any order *)

\* files as uploaded, with the descriptions of the rows the handler stores
ConcurrentFiles == {
    [text |-> "date,description,amount,type\n2024-01-15,Starbucks Coffee,4.85,expense\n2024-01-16,Salary,3200.00,income\n",
     descriptions |-> <<"Starbucks Coffee", "Salary">>],
    [text |-> "date,description,amount,type\n2024-01-17,Uber ride,18.00,expense\n2024-01-18,Amazon,abc,expense\n2024-01-19,Netflix,15.99,expense\n",
     descriptions |-> <<"Uber ride", "Netflix">>],
    [text |-> "date,description,amount,type\n2024-01-20,Pizza,12.50,expense\n",
     descriptions |-> <<"Pizza">>],
    [text |-> "date,description,amount,type\n2024-01-18,Amazon,abc,expense\n",
     descriptions |-> <<>>],
    [text |-> "date,description,amount,type\n",
     descriptions |-> <<>>] }

\* the parse of each file of ConcurrentFiles
ConcurrentParses == [f \in ConcurrentFiles |-> UploadParse(f.text)]

NextUploads ==
    \/ \E u \in Requests, f \in ConcurrentFiles : UploadReceived(u, f.text, ConcurrentParses[f])
    \/ \E u \in Requests : UploadResumed(u)
    \/ \E u \in Requests : UploadAnswered(u)

SpecUploads == Init /\ [][NextUploads]_vars

-----------------------------------------------------------------------------
(* The specification of numeric dates: a file of one row whose date cell    *)
(* has the shape A-B-YYYY is parsed by CSVParser.parseCSV                    *)

\* one- and two-digit numbers as written, with their value
DateParts == {
    [text |-> "1",  n |-> 1],
    [text |-> "02", n |-> 2],
    [text |-> "12", n |-> 12],
    [text |-> "13", n |-> 13],
    [text |-> "25", n |-> 25],
    [text |-> "29", n |-> 29],
    [text |-> "31", n |-> 31] }

DateYears == { [text |-> "2023", n |-> 2023], [text |-> "2024", n |-> 2024] }

DateFile(a, b, y) ==
    FileText(<<"date,description,amount",
               a.text \o "-" \o b.text \o "-" \o y.text \o ",Coffee,4.85">>)

InitDates ==
    /\ \E a \in DateParts, b \in DateParts, y \in DateYears : csvContent = DateFile(a, b, y)
    /\ options = [hasHeader |-> TRUE, delimiter |-> ","]
    /\ result = NoResult
    /\ NoCalls
    /\ ServerInit

NextDates == ParseCSV

SpecDates == InitDates /\ [][NextDates]_vars

-----------------------------------------------------------------------------
(* The specification of line tokenization: the non-blank lines of a file of *)
(* two lines, the first any text over LineChars, are tokenized by           *)
(* CSVParser.parseCSVLine as parseCSV does, under a comma or a tab delimiter *)

MaxLineLen == 4

LineChars == {"a", ",", "\t", "\""}

LineDelimiters == {",", "\t"}

SecondLines == {"a,a", "\"a\ta"}

RECURSIVE Concat(_)
Concat(chars) == IF chars = <<>> THEN "" ELSE Head(chars) \o Concat(Tail(chars))

InitLine ==
    /\ \E chars \in SeqsUpTo(LineChars, MaxLineLen), second \in SecondLines :
           csvContent = FileText(<<Concat(chars), second>>)
    /\ \E d \in LineDelimiters : options = [hasHeader |-> FALSE, delimiter |-> d]
    /\ result = NoResult
    /\ NoCalls
    /\ ServerInit

\* the parseCSVLine calls of parseCSV: one on each non-blank line, in order
TokenizeLines(lines) ==
    <<>> \o [k \in 1..Len(lines) |-> parseCSVLine(lines[k], options.delimiter)]

ParseCSVLines ==
    /\ lineFields = NotTokenized
    /\ lineFields' = TokenizeLines(NonBlankLines(csvContent))
    /\ UNCHANGED <<csvContent, options, result, columnVars, reportVars, serverVars>>

NextLine == ParseCSVLines

SpecLine == InitLine /\ [][NextLine]_vars

-----------------------------------------------------------------------------
(* Properties of CSV ingestion, checked under SpecCSV *)

\* parseCSV has returned
Parsed == result # NoResult

\* a line is blank when it holds white space only
IsBlankLine(l) == \A i \in 1..Len(l) : IsWhitespace(CharAt(l, i))

\* the number of lines among lines that are not blank
CountNonBlank(lines) == Cardinality({k \in 1..Len(lines) : ~IsBlankLine(lines[k])})

\* the number of non-blank lines of the file text
NonBlankCount == CountNonBlank(split(csvContent, "\n"))

\* the non-blank lines of the file and, under the options, its data rows
FileLines == NonBlankLines(csvContent)

DataRows == IF options.hasHeader /\ Len(FileLines) > 0 THEN Tail(FileLines) ELSE FileLines

FullHeader == "date,description,amount,type"

\* header lines that name a date, a description and an amount column
ResolvingHeaders == {FullHeader, "Transaction Date,Memo,Value"}

\* the file is read with the comma delimiter and its header (the default one
\* when hasHeader is false) resolves date, description and amount
HeaderResolves ==
    /\ options.delimiter = ","
    /\ options.hasHeader => (Len(FileLines) > 0 /\ FileLines[1] \in ResolvingHeaders)

\* rows that are valid in every cell
ValidLines == {
    "2024-01-15,Starbucks Coffee,4.85,expense",
    "2024-01-16,Food refund,12.50,income",
    "2024-01-17,Loan payment,250.00,expense" }

\* a row whose amount cell is not a number
BadAmountLine == "2024-01-18,Amazon Purchase,abc,expense"

\* a row whose date cell has the shape of a date and is no calendar date
BadDateLine == "2024-13-40,Bad Date,10.00,expense"

\* rows are N >= 1 rows, one of them with an unparseable amount, the others valid
OneBadAmountAmong(rows) ==
    /\ Len(rows) >= 1
    /\ \A k \in 1..Len(rows) : rows[k] \in ValidLines \cup {BadAmountLine}
    /\ Cardinality({k \in 1..Len(rows) : rows[k] = BadAmountLine}) = 1

OneBadAmountRow == HeaderResolves /\ OneBadAmountAmong(DataRows)

\* C1 (row isolation): when the header resolves date, description and amount
\* and exactly one of the N >= 1 data rows has an unparseable amount, all the
\* others being valid, parseCSV returns validRows = N - 1, N - 1 transactions
\* and one error, wherever the bad row stands.
C1_RowIsolation ==
    (Parsed /\ OneBadAmountRow) =>
        /\ result.validRows = Len(DataRows) - 1
        /\ Len(result.transactions) = Len(DataRows) - 1
        /\ Len(result.errors) = 1

\* C1 happens: three data rows were parsed, the bad one in the middle
C1_BadRowInTheMiddle ==
    Parsed /\ OneBadAmountRow /\ Len(DataRows) = 3 /\ DataRows[2] = BadAmountLine

\* C2 (post-condition of parseCSV): for every file and every option,
\* validRows is the number of transactions and totalRows is the number of
\* non-blank lines, less the header line when hasHeader is true.
C2_PostCondition ==
    Parsed =>
        /\ result.validRows = Len(result.transactions)
        /\ result.totalRows = LET n == NonBlankCount
                              IN  IF options.hasHeader /\ n > 0 THEN n - 1 ELSE n

\* C2 happens: a file with a header and three data rows, two of them imported
C2_HeaderAndThreeRows ==
    Parsed /\ options.hasHeader /\ result.totalRows = 3 /\ result.validRows = 2

\* the entries of errors that report a row
RowErrorCount(errors) ==
    Cardinality({k \in 1..Len(errors) : Len(errors[k]) >= 4 /\ SubSeq(errors[k], 1, 4) = "Row "})

\* the number of row errors a response of the server lists
ReportedRowErrors(r) == IF "errors" \in DOMAIN r THEN Len(r.errors) ELSE 0

\* C3 (no row is dropped silently): every data row of an upload is either
\* imported or reported by an error entry, in the result of parseCSV and in
\* the response of POST /api/upload/csv, which reads the lines after the first
\* non-blank one as data rows.
C3_EveryRowImportedOrReported ==
    /\ Parsed => result.totalRows = result.validRows + RowErrorCount(result.errors)
    /\ (response.kind = "upload" /\ response.status = 200) =>
           Len(FileLines) - 1 = response.count + ReportedRowErrors(response)

\* the required columns that have no index in idx
MissingAmong(idx) == {c \in {"date", "description", "amount"} : idx[c] = -1}

\* the required columns parseCSV does not find in the header row of the file
MissingColumns ==
    IF options.hasHeader /\ Len(FileLines) > 0
    THEN MissingAmong(ColumnIndexes(parseCSVLine(FileLines[1], options.delimiter)))
    ELSE {}

\* parseCSV reports missing, not empty, as the code does
ReportsMissing(missing) ==
    missing # {} =>
        /\ result.transactions = <<>>
        /\ result.validRows = 0
        /\ Len(result.errors) = Cardinality(missing) + result.totalRows
        /\ RowErrorCount(result.errors) = result.totalRows

LacksRequiredColumn == MissingColumns # {}

\* C4 (structural error), as the code has it: when the header row lacks a
\* date, a description or an amount column, parseCSV produces no transaction
\* (validRows = 0), and errors holds one top-level entry for each missing
\* column and one row error for each data row.
C4_StructuralError == Parsed => ReportsMissing(MissingColumns)

\* C4 happens: a header without any required column, over two data rows
C4_NoRequiredColumnTwoRows ==
    Parsed /\ LacksRequiredColumn /\ Cardinality(MissingColumns) = 3
           /\ Len(DataRows) = 2 /\ DataRows[1] \in ValidLines

\* C4 as stated: when a required column is missing, validRows = 0 and errors
\* has exactly one entry.
C4_SingleTopLevelError ==
    (Parsed /\ LacksRequiredColumn) =>
        result.validRows = 0 /\ Len(result.errors) = 1

\* C5 (invalid calendar date): a row dated 2024-13-40 is rejected with an
\* "Invalid date format" row error and yields no transaction, and the valid
\* rows of the file are imported.
C5_InvalidCalendarDateRejected ==
    (Parsed /\ HeaderResolves /\ \E k \in 1..Len(DataRows) : DataRows[k] = BadDateLine) =>
        /\ \E k \in 1..Len(result.errors) : includes(result.errors[k], "Invalid date format")
        /\ \A k \in 1..Len(result.transactions) : result.transactions[k].description # "Bad Date"

\* C6 (income classification): every transaction CSV ingestion produces with
\* type income has the category cat-5, in the result of parseCSV and in the
\* store after POST /api/upload/csv.
C6_IncomeHasIncomeCategory ==
    /\ Parsed => \A k \in 1..Len(result.transactions) :
           result.transactions[k].type = "income" => result.transactions[k].categoryId = "cat-5"
    /\ \A id \in DOMAIN transactions :
           transactions[id].type = "income" => transactions[id].categoryId = "cat-5"

\* the description cell and the type the type cell of a data line stands for
DescriptionOfLine(l) == trim(split(l, ",")[2])

TypeOfLine(l) ==
    IF IsIncomeWord(trim(toLowerCase(split(l, ",")[4]))) THEN "income" ELSE "expense"

\* the file has a type column, read with the comma delimiter
HasTypeColumn ==
    /\ options.delimiter = ","
    /\ options.hasHeader => (Len(FileLines) > 0 /\ FileLines[1] = FullHeader)

\* tx has the type its row's type cell stands for
TypeFollowsCell(tx) ==
    \A l \in ValidLines \cup {BadDateLine} :
        tx.description = DescriptionOfLine(l) => tx.type = TypeOfLine(l)

\* C7 (type from the type column): when the file has a type column and the
\* type cell of a row is not empty, the transaction of the row is an income
\* iff the cell contains income, deposit or credit, whatever the sign of the
\* amount, in the result of parseCSV and in the store after the upload.
C7_TypeFollowsTypeCell ==
    /\ (Parsed /\ HasTypeColumn) =>
           \A k \in 1..Len(result.transactions) : TypeFollowsCell(result.transactions[k])
    /\ (Len(FileLines) > 0 /\ FileLines[1] = FullHeader) =>
           \A id \in DOMAIN transactions : TypeFollowsCell(transactions[id])

\* the first of Food & Dining, Transportation, Entertainment and Shopping
\* with a keyword in the lower-cased description; Shopping when there is none
FirstExpenseCategory(lowerDesc) ==
    LET hits == {k \in 1..4 : \E keyword \in DEFAULT_CATEGORIES[k].keywords :
                                  includes(lowerDesc, keyword)}
    IN  IF hits = {} THEN "cat-4"
        ELSE DEFAULT_CATEGORIES[CHOOSE k \in hits : \A j \in hits : k <= j].id

\* C8 (first match): the category of an expense is the first of cat-1, cat-2,
\* cat-3, cat-4 with a keyword that is a substring of the lower-cased
\* description, and cat-4 when no keyword matches.
C8_FirstMatchOfExpenseCategories ==
    Parsed => \A k \in 1..Len(result.transactions) :
        result.transactions[k].type = "expense" =>
            result.transactions[k].categoryId
                = FirstExpenseCategory(toLowerCase(result.transactions[k].description))

\* C9 (expense categories): no expense is given the Income category cat-5.
C9_ExpenseNeverIncomeCategory ==
    Parsed => \A k \in 1..Len(result.transactions) :
        result.transactions[k].type = "expense" =>
            result.transactions[k].categoryId \in {"cat-1", "cat-2", "cat-3", "cat-4"}

\* the header of the alias scenario
AliasHeader == "Transaction Date,Memo,Value"

\* the file starts with AliasHeader and is parsed with the default options
AliasScenario ==
    /\ options = [hasHeader |-> TRUE, delimiter |-> ","]
    /\ Len(FileLines) > 0 /\ FileLines[1] = AliasHeader

\* the amount cell of a valid line, in hundredths
AmountOfLine(l) == parseFloat(trim(split(l, ",")[3]))

\* a transaction of the result has the description and the amount of line l
ImportedLine(l) ==
    \E j \in 1..Len(result.transactions) :
        /\ result.transactions[j].description = DescriptionOfLine(l)
        /\ result.transactions[j].amount = AmountOfLine(l)

\* the data rows that are valid in every cell
ValidDataRows == {k \in 1..Len(DataRows) : DataRows[k] \in ValidLines}

\* C14 (alias resolution): for the header 'Transaction Date,Memo,Value' and
\* the default options, parseCSV resolves date to index 0, description to
\* index 1 and amount to index 2, finds no type column, reports no top-level
\* (column not found) error and imports every valid data row.
C14_AliasResolution ==
    (Parsed /\ AliasScenario) =>
        /\ ColumnIndexes(parseCSVLine(FileLines[1], options.delimiter))
               = [date |-> 0, description |-> 1, amount |-> 2, type |-> -1]
        /\ RowErrorCount(result.errors) = Len(result.errors)
        /\ result.validRows >= Cardinality(ValidDataRows)
        /\ \A k \in ValidDataRows : ImportedLine(DataRows[k])

\* C14 happens: the alias header over three valid rows, all imported
C14_AliasHeaderThreeValidRows ==
    /\ Parsed /\ AliasScenario
    /\ Len(DataRows) = 3 /\ Cardinality(ValidDataRows) = 3
    /\ result.validRows = 3 /\ result.errors = <<>>

-----------------------------------------------------------------------------
(* Properties of the analytics, checked under Spec *)

\* the expense transactions of the user
ExpenseIds ==
    {k \in UserTransactionIds(transactions, DEFAULT_USER_ID) : transactions[k].type = "expense"}

\* the last response is that of GET /api/analytics/spending-by-category; every
\* handler writes the response, so the store is the one the handler read
BreakdownReturned == response.kind = "spendingByCategory"

\* every expense of the user has a positive amount and the id of one of the
\* user's categories
EveryExpenseCategorized ==
    \A k \in ExpenseIds :
        /\ transactions[k].amount > 0
        /\ \E c \in 1..Len(categories) :
               /\ categories[c].userId = DEFAULT_USER_ID
               /\ categories[c].id = transactions[k].categoryId

-----------------------------------------------------------------------------
(* Properties of the summary and of the store, checked under Spec *)

\* the last response is that of GET /api/analytics/summary, computed from the
\* store of this state
SummaryReturned == response.kind = "summary"

\* the transactions of the user
UserIds == UserTransactionIds(transactions, DEFAULT_USER_ID)

\* the amount of transaction k counted as the balance counts it: added for an
\* income, subtracted for an expense
SignedAmountOf(k) ==
    IF transactions[k].type = "income" THEN transactions[k].amount
    ELSE IF transactions[k].type = "expense" THEN 0 - transactions[k].amount
    ELSE 0

\* the sum of the signed amounts of the transactions 1..n of the user
RECURSIVE SignedSumUpTo(_)
SignedSumUpTo(n) ==
    IF n = 0 THEN 0
    ELSE SignedSumUpTo(n - 1) + (IF n \in UserIds THEN SignedAmountOf(n) ELSE 0)

\* C11 (balance identity): the totalBalance the summary returns is the sum of
\* the amounts of the user's income transactions minus the sum of the amounts
\* of the user's expense transactions, and 0 when the user has none.
C11_BalanceIdentity ==
    SummaryReturned =>
        /\ response.body.totalBalance = SignedSumUpTo(nextId)
        /\ UserIds = {} => response.body.totalBalance = 0

\* C11 happens: a summary of a store with an income and an expense
C11_SummaryOfIncomeAndExpense ==
    /\ SummaryReturned
    /\ \E i, e \in UserIds : transactions[i].type = "income" /\ transactions[e].type = "expense"
    /\ response.body.totalBalance # 0

\* C12 (non-negative amounts): every stored transaction has amount >= 0.
C12_AmountNeverNegative ==
    \A k \in DOMAIN transactions : transactions[k].amount >= 0

\* the date lies between the first day of the clock's month and the clock's day
InMonthToNow(date) == date.valid /\ date.y = now.y /\ date.m = now.m /\ date.d <= now.d

\* C17 (monthly spending): the monthlySpending of the summary is the sum of
\* the amounts of the user's expenses dated from the first day of the current
\* month to now; expenses dated before the month or after now, and income,
\* are left out.
C17_MonthlySpendingFromMonthStartToNow ==
    SummaryReturned =>
        response.body.monthlySpending
            = SumAmounts(transactions, {k \in UserIds : /\ transactions[k].type = "expense"
                                                        /\ InMonthToNow(transactions[k].date)})

-----------------------------------------------------------------------------
(* Properties of column resolution, checked under SpecColumns *)

\* findColumnIndex has returned
ColumnResolved == columnIndex # NotCalled

\* header cell k, lower-cased and trimmed, equals, contains or is contained by
\* alias n, lower-cased
CellMatchesAlias(k, n) ==
    LET cell  == trim(toLowerCase(headerCells[k]))
        alias == toLowerCase(aliasNames[n])
    IN  cell = alias \/ includes(cell, alias) \/ includes(alias, cell)

\* the header cells that match one of the aliases
MatchingCells == {k \in 1..Len(headerCells) : \E n \in 1..Len(aliasNames) : CellMatchesAlias(k, n)}

\* the aliases that match one of the header cells
MatchingAliases == {n \in 1..Len(aliasNames) : \E k \in 1..Len(headerCells) : CellMatchesAlias(k, n)}

\* the least element of a non-empty set of numbers
Least(S) == CHOOSE x \in S : \A y \in S : x <= y

\* the first alias, in alias order, that matches a header cell
FirstMatchingAlias == Least(MatchingAliases)

\* C13 (column resolution), as the code has it: findColumnIndex returns -1
\* when no header cell matches any alias, and otherwise the zero-based index
\* of the first header cell that matches the first alias, in alias order,
\* that matches any header cell; the order of the aliases decides.
C13_FirstCellOfFirstMatchingAlias ==
    ColumnResolved =>
        IF MatchingAliases = {} THEN columnIndex = -1
        ELSE columnIndex = Least({k \in 1..Len(headerCells) : CellMatchesAlias(k, FirstMatchingAlias)}) - 1

\* C13 happens: the first alias matches the second header cell only, the
\* second alias matches the first header cell
C13_LaterAliasMatchesEarlierCell ==
    /\ ColumnResolved
    /\ Len(headerCells) >= 2 /\ Len(aliasNames) = 2
    /\ CellMatchesAlias(2, 1) /\ ~CellMatchesAlias(1, 1) /\ CellMatchesAlias(1, 2)
    /\ columnIndex = 1

\* C13 as stated: findColumnIndex returns the smallest index of a header cell
\* that matches any alias, whatever the order of the aliases, and -1 when no
\* header cell matches.
C13_SmallestMatchingIndex ==
    ColumnResolved =>
        IF MatchingCells = {} THEN columnIndex = -1
        ELSE columnIndex = Least(MatchingCells) - 1

-----------------------------------------------------------------------------
(* Properties of the end-to-end scenario, checked under SpecScenario *)

\* the file of the scenario
ScenarioFile ==
    FileText(<<"date,description,amount,type",
               "2024-01-15,Starbucks Coffee,4.85,expense",
               "2024-01-15,Salary Deposit,3200.00,income",
               "2024-01-16,Amazon Purchase,47.99,expense">>)

\* the categories of the transactions of a sequence, in order
CategoriesOf(txs) == [k \in 1..Len(txs) |-> txs[k].categoryId]

\* the stored transactions in the order of their creation
StoredInOrder == [k \in 1..nextId |-> transactions[k]]

\* what the scenario expects of three ingested transactions: Food & Dining,
\* Income and Shopping
ScenarioCategories == <<"cat-1", "cat-5", "cat-4">>

\* the file of the scenario has been uploaded and the summary read
ScenarioSummarized ==
    csvContent = ScenarioFile /\ SummaryReturned /\ DOMAIN transactions = 1..3

\* C15 (end-to-end scenario): parsing the file of the scenario yields 3 valid
\* transactions and no errors, with the categories Food & Dining, Income and
\* Shopping; uploading it stores 3 transactions with these categories; and
\* the summary over them has totalIncome 3200.00 and totalExpenses 52.84, so
\* totalBalance 3147.16, in hundredths.
C15_EndToEndScenario ==
    /\ (csvContent = ScenarioFile /\ Parsed) =>
           /\ result.validRows = 3 /\ result.errors = <<>>
           /\ CategoriesOf(result.transactions) = ScenarioCategories
    /\ (csvContent = ScenarioFile /\ DOMAIN transactions = 1..3) =>
           /\ CategoriesOf(StoredInOrder) = ScenarioCategories
           /\ totalIncome(transactions) = 320000
           /\ totalExpenses(transactions) = 5284
    /\ ScenarioSummarized => response.body.totalBalance = 314716

-----------------------------------------------------------------------------
(* Properties of amount normalization, checked under SpecAmounts *)

\* the file holds magnitude m in the form, under the description, and has
\* been parsed
ParsedAmount(m, form, description) ==
    csvContent = AmountFile(m.text, form, description) /\ Parsed

\* parseCSV made one transaction of the row, of amount cents
OneTransactionOf(cents) ==
    /\ result.validRows = 1 /\ result.errors = <<>>
    /\ Len(result.transactions) = 1
    /\ result.transactions[1].amount = cents
    /\ result.transactions[1].amount >= 0

\* the forms that do not make the amount negative
PositiveForms == {"plain", "dollar"}

\* C16 (amount normalization): for every magnitude v the cells v, $v, (v) and
\* -v, with or without thousands separators, produce a transaction whose
\* amount is v, never negative; only (v) and -v count as negative for type
\* inference: under a description with an income word a positive v infers
\* income as v and $v, and expense as (v) and -v (a zero amount has no sign
\* and infers expense in every form).
C16_SameAmountSignFromForm ==
    \A m \in Magnitudes, form \in AmountForms, description \in AmountDescriptions :
        ParsedAmount(m, form, description) =>
            /\ OneTransactionOf(m.cents)
            /\ result.transactions[1].type =
                   IF description = "Salary" /\ form \in PositiveForms /\ m.cents > 0
                   THEN "income" ELSE "expense"

\* C16 happens: a parenthesised magnitude with thousands separators under an
\* income description is stored as the magnitude, with type expense
C16_ParenthesisedThousands ==
    /\ ParsedAmount([text |-> "1,234.56", cents |-> 123456], "parenthesised", "Salary")
    /\ OneTransactionOf(123456)
    /\ result.transactions[1].type = "expense"

-----------------------------------------------------------------------------
(* Properties of the monthly trend, checked under SpecTrends *)

\* monthlyTrends has been computed
TrendsComputed == monthlyTrends # NotComputed

\* the (year, month) pairs of the transactions of the window, as year * 12 + month
WindowMonths == {getTimeRangeData[k].date.y * 12 + getTimeRangeData[k].date.m :
                     k \in 1..Len(getTimeRangeData)}

\* the sum of the amounts of the transactions of the window that fall in the
\* month ym and are income (or are not)
RECURSIVE MonthSumFrom(_, _, _)
MonthSumFrom(ym, income, i) ==
    IF i > Len(getTimeRangeData) THEN 0
    ELSE MonthSumFrom(ym, income, i + 1)
         + (IF /\ getTimeRangeData[i].date.y * 12 + getTimeRangeData[i].date.m = ym
               /\ (getTimeRangeData[i].type = "income") = income
            THEN getTimeRangeData[i].amount ELSE 0)

\* the number of months of the window before or equal to ym
RankOfMonth(ym) == Cardinality({x \in WindowMonths : x <= ym})

\* bucket j is the bucket of the month ym
IsBucketOf(j, ym) ==
    /\ monthlyTrends[j].month = monthName([y |-> (ym - 1) \div 12, m |-> ((ym - 1) % 12) + 1])
    /\ monthlyTrends[j].income = MonthSumFrom(ym, TRUE, 1)
    /\ monthlyTrends[j].expenses = MonthSumFrom(ym, FALSE, 1)

\* C18 (monthly trend ordering): the monthly trend has one bucket for each
\* (year, month) of the window, holding the sums of the income and of the
\* expense amounts of that month, and the buckets stand in ascending
\* chronological order.
C18_BucketsInChronologicalOrder ==
    TrendsComputed =>
        /\ Len(monthlyTrends) = Cardinality(WindowMonths)
        /\ \A ym \in WindowMonths : IsBucketOf(RankOfMonth(ym), ym)

-----------------------------------------------------------------------------
(* Frame properties of the server, checked under SpecFrame *)

\* C19 (createdAt is immutable): no step changes the createdAt of a stored
\* transaction.
C19_CreatedAtNeverChanges ==
    [][\A k \in DOMAIN transactions \cap DOMAIN transactions' :
           transactions'[k].createdAt = transactions[k].createdAt]_vars

\* the responses of the requests that create, update or delete a budget
BudgetRequests == {"createBudget", "updateBudget", "deleteBudget"}

\* the responses of the requests that create, update or delete a savings goal
SavingsGoalRequests == {"createSavingsGoal", "updateSavingsGoal", "deleteSavingsGoal"}

\* a step leaves budgets as they are unless it serves a budget request, and
\* changes the spent of a budget in an updateBudget only; a budget is created
\* with spent 0
BudgetsFramed ==
    /\ budgets' # budgets => response'.kind \in BudgetRequests
    /\ \A k \in DOMAIN budgets' \ DOMAIN budgets : budgets'[k].spent = 0
    /\ \A k \in DOMAIN budgets' \cap DOMAIN budgets :
           budgets'[k].spent # budgets[k].spent => response'.kind = "updateBudget"

\* a step leaves savings goals as they are unless it serves a savings goal
\* request
SavingsGoalsFramed ==
    savingsGoals' # savingsGoals => response'.kind \in SavingsGoalRequests

\* C20 (budgets and savings goals are left alone): a CSV upload, a single or
\* bulk creation, an update or a deletion of transactions and every analytics
\* read leave each budget, its spent included, and each savings goal, its
\* currentAmount included, as before; the spent of a budget is 0 at creation
\* and changes only through updateBudget.
C20_BudgetsAndGoalsUnchanged == [][BudgetsFramed /\ SavingsGoalsFramed]_vars

\* C20 happens: a summary read over an uploaded transaction, a budget whose
\* spent was updated and a savings goal
C20_SummaryOverBudgetAndGoal ==
    /\ SummaryReturned
    /\ transactions # <<>>
    /\ \E k \in DOMAIN budgets : budgets[k].spent = 5000
    /\ savingsGoals # <<>>
    /\ response.body.budgetRemaining = 25000

-----------------------------------------------------------------------------
(* Properties of the row loop, checked under SpecShort and SpecCSV *)

\* the cells of the header row parseCSV resolves the columns in
HeaderRowOfFile ==
    IF options.hasHeader THEN parseCSVLine(FileLines[1], options.delimiter)
    ELSE <<"date", "description", "amount", "type">>

ResolvedIndexes == ColumnIndexes(HeaderRowOfFile)

\* the number of delimited cells of a line that has no double quote
FieldCount(l) == Len(split(l, options.delimiter))

\* the index parseCSV reports the k-th data row under
RowNumber(k) == IF options.hasHeader THEN k + 1 ELSE k

RowPrefix(n) == "Row " \o ToString(n) \o ": "

HasPrefix(e, prefix) == Len(e) >= Len(prefix) /\ SubSeq(e, 1, Len(prefix)) = prefix

\* the entries of errors that report row n, in order
ErrorsOfRow(n) == SelectSeq(result.errors, LAMBDA e : HasPrefix(e, RowPrefix(n)))

\* the data rows no entry of errors reports
RowsWithoutError == {k \in 1..Len(DataRows) : ErrorsOfRow(RowNumber(k)) = <<>>}

\* the k-th data row is reported by 'Insufficient columns' and by nothing else
RejectedAsInsufficient(k) ==
    ErrorsOfRow(RowNumber(k)) = <<RowPrefix(RowNumber(k)) \o "Insufficient columns">>

Max4(a, b, c, d) == Max3(Max3(a, b, c), d, d)

\* the data rows with fewer cells than the highest resolved index plus one,
\* the type column counted
ShortOfResolved ==
    {k \in 1..Len(DataRows) :
        FieldCount(DataRows[k]) < Max4(ResolvedIndexes.date, ResolvedIndexes.description,
                                       ResolvedIndexes.amount, ResolvedIndexes.type) + 1}

\* the data rows with fewer cells than the highest of the date, description
\* and amount indexes plus one
ShortOfRequired ==
    {k \in 1..Len(DataRows) :
        FieldCount(DataRows[k]) < Max3(ResolvedIndexes.date, ResolvedIndexes.description,
                                       ResolvedIndexes.amount) + 1}

\* C21 as stated (insufficient columns, the type column included): a data row
\* with fewer cells than the highest resolved column index plus one, over
\* date, description, amount and type, is rejected with exactly one
\* 'Insufficient columns' error and yields no transaction.
C21_ShortOfAnyResolvedColumn ==
    Parsed =>
        /\ \A k \in ShortOfResolved : RejectedAsInsufficient(k)
        /\ result.validRows = Cardinality(RowsWithoutError)

\* C21 amended (insufficient columns): a data row with fewer cells than the
\* highest of the resolved date, description and amount indexes plus one is
\* rejected with exactly one 'Insufficient columns' error, whatever its cells
\* hold, and yields no transaction; the type column does not count.
C21_ShortOfRequiredColumn ==
    Parsed =>
        /\ \A k \in ShortOfRequired : RejectedAsInsufficient(k)
        /\ result.validRows = Cardinality(RowsWithoutError)

\* C21 happens: a row of two cells whose date cell is no date, under a
\* header of three required columns, is reported as insufficient
C21_ShortRowWithBadDate ==
    /\ Parsed
    /\ \E k \in ShortOfRequired :
           /\ DataRows[k] = "expense,2024-01-17"
           /\ RejectedAsInsufficient(k)
    /\ result.validRows >= 1

-----------------------------------------------------------------------------
(* Properties of type inference, checked under SpecInference *)

\* C22 (type inference without a type column): the row is classified income
\* exactly when its raw amount is positive (not parenthesised, no minus sign,
\* not zero) and its description contains salary, deposit or refund in any
\* case; every other row is classified expense.
C22_IncomeIffPositiveAndIncomeWord ==
    \A m \in Magnitudes, form \in AmountForms, description \in InferenceDescriptions :
        ParsedAmount(m, form, description.text) =>
            /\ OneTransactionOf(m.cents)
            /\ result.transactions[1].type =
                   IF form \in PositiveForms /\ m.cents > 0 /\ description.incomeWord
                   THEN "income" ELSE "expense"

\* C22 happens: a positive amount under an upper-case income word is income,
\* of the income category
C22_UpperCaseSalaryIsIncome ==
    /\ ParsedAmount([text |-> "3,200.00", cents |-> 320000], "dollar", "Monthly SALARY")
    /\ OneTransactionOf(320000)
    /\ result.transactions[1].type = "income"
    /\ result.transactions[1].categoryId = "cat-5"

-----------------------------------------------------------------------------
(* Properties of the row index of errors, checked under SpecRows *)

\* the row-level entries of errors, in order
RowErrors == SelectSeq(result.errors, LAMBDA e : HasPrefix(e, "Row "))

\* the indexes of the data rows: 1-based over the non-blank lines of the
\* file, the header line counted
RowNumbers == {RowNumber(k) : k \in 1..Len(DataRows)}

\* the data lines parseCSV makes a transaction of under a resolving header;
\* the line dated 2024-13-40 is among them (it is imported, dated 2025-02-09)
ImportedLines == ValidLines \cup {BadDateLine}

\* C23 (row index of errors): every row-level error entry is prefixed with
\* the 1-based index of its row among the non-blank lines, the header line
\* counted (data row k is row k + 1 with a header and row k without); two
\* rejected rows never carry the same index, and the rejected rows are the
\* ones reported.
C23_RowIndexOfErrors ==
    Parsed =>
        /\ \A j \in 1..Len(RowErrors) :
               \E n \in RowNumbers : HasPrefix(RowErrors[j], RowPrefix(n))
        /\ \A n \in RowNumbers : Len(ErrorsOfRow(n)) <= 1
        /\ Cardinality({n \in RowNumbers : ErrorsOfRow(n) # <<>>})
               = result.totalRows - result.validRows
        /\ HeaderResolves =>
               \A k \in 1..Len(DataRows) :
                   (ErrorsOfRow(RowNumber(k)) # <<>>) <=> (DataRows[k] \notin ImportedLines)

\* C23 happens: after the header and a blank line, the second data row is
\* rejected and reported as row 3
C23_BlankLineThenBadRow ==
    /\ Parsed
    /\ options = [hasHeader |-> TRUE, delimiter |-> ","]
    /\ csvContent = FileText(<<FullHeader, "   ",
                               "2024-01-15,Starbucks Coffee,4.85,expense", BadAmountLine>>)
    /\ result.errors = <<"Row 3: Error: Invalid amount: abc">>

-----------------------------------------------------------------------------
(* Properties of line tokenization, checked under SpecLine *)

Tokenized == lineFields # NotTokenized

Quote == "\""

\* position i of line l is in quoted mode: an odd number of double quotes
\* stand before it
InQuotedMode(l, i) == Cardinality({j \in 1..(i - 1) : CharAt(l, j) = Quote}) % 2 = 1

\* the positions of l that hold the delimiter outside quoted mode
OutsideDelimiters(l) ==
    {i \in 1..Len(l) : CharAt(l, i) = options.delimiter /\ ~InQuotedMode(l, i)}

\* the position of the n-th outside delimiter of l; 0 before the first one,
\* Len(l) + 1 after the last
OutsideDelimiterAt(l, n) ==
    IF n = 0 THEN 0
    ELSE IF n > Cardinality(OutsideDelimiters(l)) THEN Len(l) + 1
    ELSE CHOOSE p \in OutsideDelimiters(l) :
             Cardinality({q \in OutsideDelimiters(l) : q <= p}) = n

\* the text of l between its (n - 1)-th and n-th outside delimiters
Segment(l, n) == Slice(l, OutsideDelimiterAt(l, n - 1) + 1, OutsideDelimiterAt(l, n) - 1)

\* the number of delimiter characters in text
DelimiterCount(text) ==
    Cardinality({i \in 1..Len(text) : CharAt(text, i) = options.delimiter})

NoWrappingQuote(field) ==
    field = "" \/ (CharAt(field, 1) # Quote /\ CharAt(field, Len(field)) # Quote)

\* the lines are tokenized one by one, quoted mode off at the start of each,
\* into one field more than there are outside delimiters, none with a
\* wrapping double quote
FieldsOfOutsideDelimiters ==
    /\ Len(lineFields) = Len(FileLines)
    /\ \A k \in 1..Len(FileLines) :
           /\ Len(lineFields[k]) = Cardinality(OutsideDelimiters(FileLines[k])) + 1
           /\ \A n \in 1..Len(lineFields[k]) : NoWrappingQuote(lineFields[k][n])

-----------------------------------------------------------------------------
(* Properties of the category breakdown, checked under SpecBreakdown *)

Rendered == categoryBreakdown # NoBreakdown

\* the number of months of the selected range
MonthsOfRange ==
    IF timeRange = "1month" THEN 1 ELSE IF timeRange = "3months" THEN 3
    ELSE IF timeRange = "6months" THEN 6 ELSE 12

\* the number of the month of a date, counted from year 0
MonthNumber(date) == date.y * 12 + (date.m - 1)

\* the date is in the window of N calendar months that ends with the
\* current month, or later
InWindow(date) == MonthNumber(date) >= MonthNumber(now) - (MonthsOfRange - 1)

\* the keys of the expenses of the store that are in the window
WindowExpenses ==
    {k \in DOMAIN transactions :
        transactions[k].type = "expense" /\ InWindow(transactions[k].date)}

\* the name the breakdown lists the transaction of key k under
BreakdownName(k) ==
    IF \E c \in 1..Len(categories) : categories[c].id = transactions[k].categoryId
    THEN categories[CHOOSE c \in 1..Len(categories) :
                        categories[c].id = transactions[k].categoryId].name
    ELSE "Uncategorized"

\* C25 (category breakdown over a time window): for a range of N months the
\* window starts at the first day of the month N - 1 months before the
\* current one; the breakdown holds exactly the expenses dated at or after
\* the window start, each entry the total of its category, the amounts
\* summing to the total of those expenses, sorted by amount descending.
C25_BreakdownOfWindow ==
    Rendered =>
        /\ \A k \in DOMAIN transactions :
               (\E j \in 1..Len(getTimeRangeData) : getTimeRangeData[j].id = k)
                   <=> InWindow(transactions[k].date)
        /\ \A j \in 1..Len(categoryBreakdown) :
               categoryBreakdown[j].amount =
                   SumAmounts(transactions,
                              {k \in WindowExpenses : BreakdownName(k) = categoryBreakdown[j].name})
        /\ SumSeqAmounts(categoryBreakdown) = SumAmounts(transactions, WindowExpenses)
        /\ \A j \in 1..(Len(categoryBreakdown) - 1) :
               categoryBreakdown[j].amount >= categoryBreakdown[j + 1].amount

-----------------------------------------------------------------------------
(* Properties of concurrent uploads, checked under SpecUploads *)

\* request u has been answered
Answered(u) == uploads[u].pc = "done"

\* the descriptions of the rows of the file of request u that the handler stores
OwnDescriptions(u) ==
    (CHOOSE f \in ConcurrentFiles : f.text = uploads[u].file).descriptions

\* the response to u lists exactly the records of its own file, in the order
\* of the file, each stored under its id
ReturnsOwnRecords(u) ==
    IF Len(NonBlankLines(uploads[u].file)) < 2 THEN uploads[u].response.status = 400
    ELSE /\ uploads[u].response.status = 200
         /\ uploads[u].response.count = Len(OwnDescriptions(u))
         /\ Len(uploads[u].response.ids) = Len(OwnDescriptions(u))
         /\ \A k \in 1..Len(OwnDescriptions(u)) :
                /\ uploads[u].response.ids[k] \in DOMAIN transactions
                /\ transactions[uploads[u].response.ids[k]].id = uploads[u].response.ids[k]
                /\ transactions[uploads[u].response.ids[k]].description = OwnDescriptions(u)[k]

\* the ids the response to u lists
ReturnedIds(u) ==
    IF "ids" \in DOMAIN uploads[u].response
    THEN {uploads[u].response.ids[k] : k \in 1..Len(uploads[u].response.ids)}
    ELSE {}

\* C26 (concurrent uploads do not interfere): two uploads whose create steps
\* interleave in any order both complete; each returns exactly its own
\* records in input order; the ids are pairwise distinct; the final store
\* holds every record of both batches.
C26_UploadsDoNotInterfere ==
    /\ (\E u \in Requests : ~Answered(u)) => ENABLED NextUploads
    /\ \A u \in Requests : Answered(u) => ReturnsOwnRecords(u)
    /\ (\A u \in Requests : Answered(u)) =>
           /\ Cardinality(ReturnedIds(1) \cup ReturnedIds(2))
                  = Len(OwnDescriptions(1)) + Len(OwnDescriptions(2))
           /\ DOMAIN transactions = ReturnedIds(1) \cup ReturnedIds(2)

\* C26 happens: two uploads of two records each are answered after their
\* create steps alternated
C26_AlternatingCreates ==
    /\ \A u \in Requests : Answered(u) /\ uploads[u].response.status = 200
    /\ uploads[1].response.ids = <<1, 3>>
    /\ uploads[2].response.ids = <<2, 4>>

-----------------------------------------------------------------------------
(* Properties of numeric dates, checked under SpecDates *)

\* day d of month m of year y is a day of the calendar
IsCalendarDate(y, m, d) == m \in 1..12 /\ d \in 1..DaysInMonth(y, m)

\* parseCSV made one transaction of the row, dated day d of month m of year y
OneTransactionDated(y, m, d) ==
    /\ result.validRows = 1 /\ result.errors = <<>>
    /\ Len(result.transactions) = 1
    /\ result.transactions[1].date = [valid |-> TRUE, y |-> y, m |-> m, d |-> d]

\* C27 (ambiguous numeric dates): a cell A-B-YYYY is read month first (month
\* A, day B) whenever that is a calendar date, and day first (day A, month B)
\* when the month-first reading is no calendar date and the day-first one is
\* (25-12-2024 is 25 December 2024).
C27_MonthFirstElseDayFirst ==
    \A a \in DateParts, b \in DateParts, y \in DateYears :
        (Parsed /\ csvContent = DateFile(a, b, y)) =>
            IF IsCalendarDate(y.n, a.n, b.n) THEN OneTransactionDated(y.n, a.n, b.n)
            ELSE IsCalendarDate(y.n, b.n, a.n) => OneTransactionDated(y.n, b.n, a.n)

-----------------------------------------------------------------------------
(* Properties of the outcome of each row, checked under SpecRows *)

\* the data rows no error reports, in the order of the file
RowsImported == SelectSeq(DataRows, LAMBDA l :
                    \E k \in RowsWithoutError : DataRows[k] = l)

\* every data row has one outcome: a transaction or one row-level error
OneOutcomePerRow ==
    /\ \A k \in 1..Len(DataRows) : Len(ErrorsOfRow(RowNumber(k))) <= 1
    /\ Len(result.transactions) = Cardinality(RowsWithoutError)
    /\ result.validRows = Len(result.transactions)
    /\ result.totalRows = result.validRows + RowErrorCount(result.errors)
    /\ Len(result.errors) = Cardinality(MissingColumns) + (result.totalRows - result.validRows)
    /\ HeaderResolves =>
           /\ Len(RowsImported) = Len(result.transactions)
           /\ \A j \in 1..Len(result.transactions) :
                  result.transactions[j].description = DescriptionOfLine(RowsImported[j])

\* C28 as stated (exactly one outcome per data row): for every input each
\* non-blank data row contributes one transaction or one row-level error,
\* never both or neither; totalRows = validRows + row-level errors;
\* len(errors) = missing required columns + (totalRows - validRows); the
\* transactions are in the order of their rows.
C28_OneOutcomeForEveryInput == Parsed => OneOutcomePerRow

\* C28 amended: the same for every input that has a non-blank line (a file
\* without one is answered with the single error 'CSV file is empty').
C28_OneOutcomeForNonEmptyInput ==
    /\ (Parsed /\ FileLines # <<>>) => OneOutcomePerRow
    /\ (Parsed /\ FileLines = <<>>) =>
           result = [transactions |-> <<>>, errors |-> <<"CSV file is empty">>,
                     totalRows |-> 0, validRows |-> 0]

\* C28 happens: a bad row between two valid ones gives two transactions in
\* the order of the file and one error
C28_BadRowBetweenValidRows ==
    /\ Parsed
    /\ options = [hasHeader |-> TRUE, delimiter |-> ","]
    /\ csvContent = FileText(<<FullHeader, "2024-01-16,Food refund,12.50,income",
                               BadAmountLine, "2024-01-15,Starbucks Coffee,4.85,expense">>)
    /\ Len(result.transactions) = 2
    /\ result.transactions[1].description = "Food refund"
    /\ result.transactions[2].description = "Starbucks Coffee"
    /\ result.errors = <<"Row 3: Error: Invalid amount: abc">>

-----------------------------------------------------------------------------
(* Properties of the keys of the store, checked under Spec *)

\* the answers of an update or a delete addressed to an id not in the store
NotFound == response.status = 404 /\ response.kind \in {"updateTransaction", "deleteTransaction"}

\* C29 (store key consistency): after every step each transaction stored
\* under key k has id = k and the userId it was created with; an update or a
\* delete addressed to an id that is not in the store answers not found and
\* leaves the store unchanged.
C29_StoreKeyConsistency ==
    [][/\ \A k \in DOMAIN transactions' :
              /\ transactions'[k].id = k
              /\ transactions'[k].userId = DEFAULT_USER_ID
       /\ NotFound' => transactions' = transactions]_vars

-----------------------------------------------------------------------------
(* Properties of the resolved columns, checked under SpecCSV *)

\* the header row names a date, a description and an amount column
RequiredColumnsFound ==
    /\ ResolvedIndexes.date # -1
    /\ ResolvedIndexes.description # -1
    /\ ResolvedIndexes.amount # -1

\* C30 (distinct column resolution): when parseCSV finds the date, the
\* description and the amount column, the three indexes are pairwise
\* distinct and none of them is the index of the type column.
C30_DistinctColumns ==
    (Parsed /\ FileLines # <<>> /\ RequiredColumnsFound) =>
        Cardinality({ResolvedIndexes.date, ResolvedIndexes.description,
                     ResolvedIndexes.amount, ResolvedIndexes.type}) = 4

====
